---- MODULE Spec2Model ----
(***************************************************************************)
(* GATT client engine of blatann (blatann/gatt/gattc.py): the              *)
(* characteristics of one peer's database, the Read/Write Manager they     *)
(* share, the transport's completions and its indication/notification      *)
(* events; and the database itself: its growth during discovery and its    *)
(* lookups by UUID.                                                        *)
(*                                                                         *)
(* gattc.py is translated from the source.  Its collaborators that are not *)
(* part of the sources at hand (_ReadWriteManager, GattcAttribute,         *)
(* EventSource, gatt.SubscriptionState, Uuid and the uuid manager) follow  *)
(* sections 3, 4.1, 4.2 and 9 of the specification.                        *)
(***************************************************************************)
EXTENDS Integers, Sequences, FiniteSets, TLC

\* Requests the callers may have accepted in one run (caps the request ids).
MaxRequests == 2

\* Services one database may hold (caps add_discovered_services).
MaxServices == 3

\* ------------------------------------------------------------------------
\* The discovered database: two characteristics of one peer.
\* ------------------------------------------------------------------------
Chars == {1, 2}
CharOrder == <<1, 2>>

\* The callbacks callers pass to subscribe(), in the order callers first use
\* them.
HandlerOrder == <<"h1", "h2">>
Handlers == {HandlerOrder[i] : i \in 1..Len(HandlerOrder)}

\* Byte strings: what callers write, what the peripheral returns to a read
\* and what it pushes in a notification or indication.
WriteData == {<<7>>}
ReadData == {<<85>>}
EventData == {<<60>>}

\* The connection handle of the peer (peer.conn_handle) and a foreign one.
PeerConn == 1
ConnHandles == {PeerConn, PeerConn + 1}

\* Attribute handles of characteristic c: declaration, value, CCCD.
HandleDecl(c) == 10 * c
HandleValue(c) == 10 * c + 1
HandleCccd(c) == 10 * c + 2
AllHandles == UNION {{HandleDecl(c), HandleValue(c), HandleCccd(c)} : c \in Chars}

\* gatt.CharacteristicProperties plus whether discovery found a CCCD.
Profile(r, w, wnr, n, i, cccd) ==
    [read |-> r, write |-> w, write_no_response |-> wnr,
     notify |-> n, indicate |-> i, cccd |-> cccd]
\* The discovered database: characteristic 1 can be read, written and
\* subscribed to either way; characteristic 2 can be read and written without
\* response and has no CCCD.
PSubscribable == Profile(TRUE, TRUE, FALSE, TRUE, TRUE, TRUE)
PPlain == Profile(TRUE, FALSE, TRUE, FALSE, FALSE, FALSE)
Databases == { <<PSubscribable, PPlain>> }
\* Databases covering the capability combinations: also a characteristic that
\* can notify but not indicate, one that can indicate but not notify and can
\* be neither read nor written, each beside a characteristic with none of
\* these capabilities (it can only be broadcast).
PNotifyOnly == Profile(TRUE, TRUE, TRUE, TRUE, FALSE, TRUE)
PIndicateOnly == Profile(FALSE, FALSE, FALSE, FALSE, TRUE, TRUE)
PBroadcast == Profile(FALSE, FALSE, FALSE, FALSE, FALSE, FALSE)
CapDatabases ==
    Databases \cup { <<PNotifyOnly, PBroadcast>>, <<PIndicateOnly, PBroadcast>> }
\* A database whose first characteristic declares notify but for which
\* discovery found no CCCD descriptor (cccd_attr is None).
PNoCccd == Profile(TRUE, TRUE, FALSE, TRUE, FALSE, FALSE)
NoCccdDatabases == { <<PNoCccd, PPlain>> }
\* A database none of whose characteristics can notify or indicate.
NoHvxDatabases == { <<PPlain, PBroadcast>> }

\* gatt.SubscriptionState and its two-byte little-endian CCCD encoding.
NOT_SUBSCRIBED == 0
NOTIFY == 1
INDICATION == 2
to_buffer(v) == <<v % 256, v \div 256>>
from_buffer(b) == b[1] + 256 * b[2]

Kinds == {"read", "write"}
NoReq == [id |-> 0, kind |-> "none", handle |-> 0, data |-> <<>>, rsp |-> FALSE]

\* The database's manager is 0; an attribute is bound to a manager when it is
\* constructed.
DbManager == 0
ManagerIds == {DbManager} \cup Chars

VARIABLES
    props,        \* [Chars -> profile]: fixed at discovery
    cccd_state,   \* [Chars -> SubscriptionState]
    handlers,     \* [Chars -> Seq(Handlers)]: _on_notification_event's handlers
    value,        \* [Chars -> bytes]: the value attribute's cache
    inflight,     \* [ManagerIds -> [Kinds -> request]]
    queue,        \* [ManagerIds -> [Kinds -> Seq(request)]]
    closed,       \* [ManagerIds -> BOOLEAN]: the manager saw the disconnect
    nextId,       \* the next request id
    transport,    \* requests issued to the transport and not yet completed
    connected,    \* the peer's connection is up
    accepted,     \* history: the accepted requests, in call order
    issued,       \* history, per kind: request ids in the order they were issued
    resolved,     \* history, per kind: the characteristic events fired, in order
    lastCall,     \* outcome of the call made in this step: "ok" or the exception
                  \* raised; "none" in a step that is no call
    hvxLog,       \* effects of the event dispatched in this step, <<>> otherwise
    services,     \* GattcDatabase.services: the discovered services, in order
    found         \* the database call made last: its name, the UUID looked up,
                  \* the service and characteristic it was made on, its result

vars == <<props, cccd_state, handlers, value, inflight, queue, closed, nextId,
          transport, connected, accepted, issued, resolved, lastCall, hvxLog,
          services, found>>
dbVars == <<services, found>>
engineVars == <<props, cccd_state, handlers, value, inflight, queue, closed, nextId,
                transport, connected, accepted, issued, resolved, lastCall, hvxLog>>
mgrVars == <<inflight, queue, nextId, transport, accepted, issued>>

\* ------------------------------------------------------------------------
\* GattcCharacteristic: properties
\* ------------------------------------------------------------------------
readable(c) == props[c].read
writable(c) == props[c].write
writable_without_response(c) == props[c].write_no_response
subscribable(c) == props[c].notify \/ props[c].indicate
subscribed(c) == cccd_state[c] # NOT_SUBSCRIBED

\* Mutation: every characteristic gets a manager of its own.
ManagerOf_PerCharacteristic(c) == c

\* The manager handed to the attributes of characteristic c: the database's.
ManagerOf(c) == DbManager

\* The characteristic whose value or CCCD attribute has handle h.
OwnerOf(h) == CHOOSE c \in Chars : h \in {HandleValue(c), HandleCccd(c)}

\* EventSource.register: a handler is registered once, in registration order.
register(hs, h) == IF \E i \in 1..Len(hs) : hs[i] = h THEN hs ELSE Append(hs, h)

\* ------------------------------------------------------------------------
\* Uuid: a 16-bit or a 128-bit identifier.  A 128-bit UUID is its five
\* dash-separated groups with the node group split in two, a 16-bit UUID its
\* one number.  Equality is by the normalized 128-bit value.
\* ------------------------------------------------------------------------
\* The groups of the Bluetooth base UUID 0000xxxx-0000-1000-8000-00805F9B34FB
\* after the first, and those of a vendor's base.
BaseTail == <<0, 4096, 32768, 128, 1604007163>>
VendorTail == <<43981, 4096, 32768, 128, 1604007163>>
Uuid16(x) == [size |-> 16, uuid |-> <<x>>]
Uuid128(groups) == [size |-> 128, uuid |-> groups]
\* The 128-bit UUID obtained by expanding a 16-bit one with the base.
Expanded(u16) == Uuid128(u16.uuid \o BaseTail)
Normalized(u) == IF u.size = 16 THEN u.uuid \o BaseTail ELSE u.uuid
\* Mutation: two UUIDs are equal only if they have the same form.
uuid_equals_SameForm(a, b) == a = b
uuid_equals(a, b) == Normalized(a) = Normalized(b)

\* The driver names a UUID by its base and a 16-bit value; the uuid manager
\* turns a UUID on the Bluetooth base into a Uuid16 and one on a registered
\* vendor base into a Uuid128.
NrfUuid(base, x) == [base |-> base, value |-> x]
nrf_uuid_to_uuid(n) ==
    IF n.base = "ble" THEN Uuid16(n.value) ELSE Uuid128(<<n.value>> \o VendorTail)

\* bt_sig/uuids.py
DeclarationUuid_characteristic == Uuid16(10243)
DescriptorUuid_user_description == Uuid16(10497)
DescriptorUuid_cccd == Uuid16(10498)
ServiceUuid_battery_service == Uuid16(6159)
ServiceUuid_device_information == Uuid16(6154)
CharacteristicUuid_battery_level == Uuid16(10777)
CharacteristicUuid_device_name == Uuid16(10752)

\* An optional object: None or the object.
None == <<>>
Some(x) == <<x>>

\* ------------------------------------------------------------------------
\* Discovery: the characteristics and services built from what the driver
\* discovered.
\* ------------------------------------------------------------------------
GattcAttribute(uuid, handle) == [uuid |-> uuid, handle |-> handle]

\* sorted(attributes, key=handle): a stable insertion sort.
RECURSIVE InsertByHandle(_, _)
InsertByHandle(sortedAttrs, a) ==
    IF sortedAttrs = <<>> THEN <<a>>
    ELSE IF sortedAttrs[Len(sortedAttrs)].handle <= a.handle THEN Append(sortedAttrs, a)
    ELSE Append(InsertByHandle(SubSeq(sortedAttrs, 1, Len(sortedAttrs) - 1), a),
                sortedAttrs[Len(sortedAttrs)])
RECURSIVE SortedByHandle(_)
SortedByHandle(attrs) ==
    IF attrs = <<>> THEN <<>>
    ELSE InsertByHandle(SortedByHandle(SubSeq(attrs, 1, Len(attrs) - 1)), attrs[Len(attrs)])

\* Mutation: the constructor keeps the attributes in the order it was given.
GattcCharacteristic_Unsorted(uuid, properties, decl_attr, value_attr, cccd_attr, attributes) ==
    [uuid |-> uuid, properties |-> properties, decl_attr |-> decl_attr,
     value_attr |-> value_attr, cccd_attr |-> cccd_attr, attributes |-> attributes]

\* GattcCharacteristic.__init__: the fields of a new characteristic.
GattcCharacteristic(uuid, properties, decl_attr, value_attr, cccd_attr, attributes) ==
    [uuid |-> uuid, properties |-> properties, decl_attr |-> decl_attr,
     value_attr |-> value_attr, cccd_attr |-> cccd_attr,
     attributes |-> SortedByHandle(attributes)]

\* The loop of from_discovered_characteristic over the discovered
\* descriptors, from the i-th on; st = [decl_attr, value_attr, cccd_attr,
\* attributes] is what the loop has assigned so far.
RECURSIVE ScanDescs(_, _, _)
ScanDescs(nrf_characteristic, i, st) ==
    IF i > Len(nrf_characteristic.descs) THEN st
    ELSE LET nrf_desc == nrf_characteristic.descs[i]
             char_uuid == nrf_uuid_to_uuid(nrf_characteristic.uuid)
             d_uuid == nrf_uuid_to_uuid(nrf_desc.uuid)
             d_attr == GattcAttribute(d_uuid, nrf_desc.handle)
             assigned ==
                 IF uuid_equals(d_uuid, DeclarationUuid_characteristic)
                 THEN [st EXCEPT !.decl_attr = Some(d_attr)]
                 ELSE IF uuid_equals(d_uuid, char_uuid)
                 THEN [st EXCEPT !.value_attr = Some(d_attr)]
                 ELSE IF uuid_equals(d_uuid, DescriptorUuid_cccd)
                 THEN [st EXCEPT !.cccd_attr = Some(d_attr)]
                 ELSE st
         IN  ScanDescs(nrf_characteristic, i + 1,
                       [assigned EXCEPT !.attributes = Append(@, d_attr)])

from_discovered_characteristic(nrf_characteristic) ==
    LET char_uuid == nrf_uuid_to_uuid(nrf_characteristic.uuid)
        scanned == ScanDescs(nrf_characteristic, 1,
                             [decl_attr |-> None, value_attr |-> None,
                              cccd_attr |-> None, attributes |-> <<>>])
        new_decl == GattcAttribute(DeclarationUuid_characteristic,
                                   nrf_characteristic.handle_decl)
        with_decl ==
            IF scanned.decl_attr = None
            THEN [scanned EXCEPT !.decl_attr = Some(new_decl),
                                 !.attributes = Append(@, new_decl)]
            ELSE scanned
        new_value == GattcAttribute(char_uuid, nrf_characteristic.handle_value)
        with_value ==
            IF with_decl.value_attr = None
            THEN [with_decl EXCEPT !.value_attr = Some(new_value),
                                   !.attributes = Append(@, new_value)]
            ELSE with_decl
    IN  GattcCharacteristic(char_uuid, nrf_characteristic.char_props,
                            with_value.decl_attr, with_value.value_attr,
                            with_value.cccd_attr, with_value.attributes)

\* GattcService.from_discovered_service: the service and its characteristics,
\* one per discovered characteristic, in discovery order.
from_discovered_service(nrf_service) ==
    [uuid |-> nrf_uuid_to_uuid(nrf_service.uuid),
     start_handle |-> nrf_service.start_handle,
     end_handle |-> nrf_service.end_handle,
     characteristics |->
         [i \in 1..Len(nrf_service.chars) |->
             from_discovered_characteristic(nrf_service.chars[i])]]

\* What the driver discovered of the engine's database db: one battery
\* service holding the characteristics, each with its declaration, its value
\* and, where discovery found one, its CCCD.
NrfDesc(uuid, handle) == [uuid |-> uuid, handle |-> handle]
NrfCharacteristic(uuid, char_props, handle_decl, handle_value, descs) ==
    [uuid |-> uuid, char_props |-> char_props, handle_decl |-> handle_decl,
     handle_value |-> handle_value, descs |-> descs]
NrfService(uuid, start_handle, end_handle, chars) ==
    [uuid |-> uuid, start_handle |-> start_handle, end_handle |-> end_handle,
     chars |-> chars]
CharUuidValue(c) == IF c = 1 THEN 10777 ELSE 10752
DiscoveredCharacteristic(db, c) ==
    NrfCharacteristic(NrfUuid("ble", CharUuidValue(c)), db[c], HandleDecl(c), HandleValue(c),
        <<NrfDesc(NrfUuid("ble", 10243), HandleDecl(c)),
          NrfDesc(NrfUuid("ble", CharUuidValue(c)), HandleValue(c))>>
        \o (IF db[c].cccd THEN <<NrfDesc(NrfUuid("ble", 10498), HandleCccd(c))>> ELSE <<>>))
DiscoveredDatabase(db) ==
    <<NrfService(NrfUuid("ble", 6159), HandleDecl(1) - 1, HandleCccd(2),
                 [i \in 1..Len(CharOrder) |-> DiscoveredCharacteristic(db, CharOrder[i])])>>

\* Mutation: a discovered service whose UUID the database already holds is
\* dropped.
RECURSIVE Discovered_Deduplicated(_, _)
Discovered_Deduplicated(present, nrf_services) ==
    IF nrf_services = <<>> THEN present
    ELSE LET service == from_discovered_service(Head(nrf_services))
         IN  Discovered_Deduplicated(
                 IF \E i \in 1..Len(present) : uuid_equals(present[i].uuid, service.uuid)
                 THEN present ELSE Append(present, service),
                 Tail(nrf_services))

\* The services of a database after add_discovered_services(nrf_services).
Discovered(present, nrf_services) ==
    present \o [i \in 1..Len(nrf_services) |-> from_discovered_service(nrf_services[i])]

\* No lookup has been made.
NoCall == [op |-> "none", uuid |-> <<>>, at |-> <<>>, result |-> None]

InitFrom(dbs) ==
    /\ \E db \in dbs :
          /\ props = [c \in Chars |-> db[c]]
          /\ services = Discovered(<<>>, DiscoveredDatabase(db))
    /\ found = NoCall
    /\ cccd_state = [c \in Chars |-> NOT_SUBSCRIBED]
    /\ handlers = [c \in Chars |-> <<>>]
    /\ value = [c \in Chars |-> <<>>]
    /\ inflight = [m \in ManagerIds |-> [k \in Kinds |-> NoReq]]
    /\ queue = [m \in ManagerIds |-> [k \in Kinds |-> <<>>]]
    /\ closed = [m \in ManagerIds |-> FALSE]
    /\ nextId = 1
    /\ transport = {}
    /\ connected = TRUE
    /\ accepted = <<>>
    /\ issued = [k \in Kinds |-> <<>>]
    /\ resolved = [k \in Kinds |-> <<>>]
    /\ lastCall = "none"
    /\ hvxLog = <<>>

Init == InitFrom(Databases)
CapInit == InitFrom(CapDatabases)
NoCccdInit == InitFrom(NoCccdDatabases)
NoHvxInit == InitFrom(NoHvxDatabases)

\* ------------------------------------------------------------------------
\* GattcCharacteristic: completion handlers (the characteristic's events)
\* w = [cccd, val, res, hs] is the part of the state a completion handler can
\* reach: subscription states, cached values, fired events, the handlers of
\* the notification events.
\* ------------------------------------------------------------------------
Fired(sig, c, args) == [sig |-> sig, c |-> c, args |-> args]

\* Mutation: the event is fired for a successful read only.
_read_complete_SuccessOnly(w, c, args) ==
    IF args.status = "success"
    THEN [w EXCEPT !.res["read"] = Append(@, Fired("on_read_complete", c, args))]
    ELSE w

_read_complete(w, c, args) ==
    [w EXCEPT !.res["read"] = Append(@, Fired("on_read_complete", c, args))]

\* Mutation: the event is fired for a successful write only.
_write_complete_SuccessOnly(w, c, args) ==
    IF args.status = "success"
    THEN [w EXCEPT !.res["write"] = Append(@, Fired("on_write_complete", c, args))]
    ELSE w

_write_complete(w, c, args) ==
    [w EXCEPT !.res["write"] = Append(@, Fired("on_write_complete", c, args))]

\* Mutation: the state is taken from the written buffer whatever the status.
_cccd_write_complete_IgnoreStatus(w, c, args) ==
    LET st == from_buffer(args.value)
        w1 == [w EXCEPT !.cccd[c] = st]
    IN  [w1 EXCEPT !.res["write"] = Append(@, Fired("on_cccd_write_complete", c,
                        [id |-> args.id, value |-> st, status |-> args.status,
                         reason |-> args.reason]))]

\* Mutation: the event args are built without the attribute's reason.
_cccd_write_complete_DropReason(w, c, args) ==
    LET st == IF args.status = "success" THEN from_buffer(args.value)
                                         ELSE w.cccd[c]
        w1 == [w EXCEPT !.cccd[c] = st]
    IN  [w1 EXCEPT !.res["write"] = Append(@, Fired("on_cccd_write_complete", c,
                        [id |-> args.id, value |-> st, status |-> args.status,
                         reason |-> "SUCCESS"]))]

\* Mutation: the CCCD write's completion is fired on on_write_complete.
_cccd_write_complete_OnWriteSignal(w, c, args) ==
    LET st == IF args.status = "success" THEN from_buffer(args.value)
                                         ELSE w.cccd[c]
        w1 == [w EXCEPT !.cccd[c] = st]
    IN  [w1 EXCEPT !.res["write"] = Append(@, Fired("on_write_complete", c,
                        [id |-> args.id, value |-> st, status |-> args.status,
                         reason |-> args.reason]))]

\* Mutation: the event args carry the state that was written, applied or not.
_cccd_write_complete_WrittenState(w, c, args) ==
    LET st == IF args.status = "success" THEN from_buffer(args.value)
                                         ELSE w.cccd[c]
        w1 == [w EXCEPT !.cccd[c] = st]
    IN  [w1 EXCEPT !.res["write"] = Append(@, Fired("on_cccd_write_complete", c,
                        [id |-> args.id, value |-> from_buffer(args.value),
                         status |-> args.status, reason |-> args.reason]))]

\* Mutation: a completed CCCD write can raise the subscription state but not
\* reset it.
_cccd_write_complete_NeverReset(w, c, args) ==
    LET st == IF args.status = "success" /\ from_buffer(args.value) # NOT_SUBSCRIBED
              THEN from_buffer(args.value) ELSE w.cccd[c]
        w1 == [w EXCEPT !.cccd[c] = st]
    IN  [w1 EXCEPT !.res["write"] = Append(@, Fired("on_cccd_write_complete", c,
                        [id |-> args.id, value |-> st, status |-> args.status,
                         reason |-> args.reason]))]

\* Mutation: a failed CCCD write takes the registered handlers back.
_cccd_write_complete_Rollback(w, c, args) ==
    LET st == IF args.status = "success" THEN from_buffer(args.value)
                                         ELSE w.cccd[c]
        w1 == [w EXCEPT !.cccd[c] = st,
                        !.hs[c] = IF args.status = "success" THEN @ ELSE <<>>]
    IN  [w1 EXCEPT !.res["write"] = Append(@, Fired("on_cccd_write_complete", c,
                        [id |-> args.id, value |-> st, status |-> args.status,
                         reason |-> args.reason]))]

_cccd_write_complete(w, c, args) ==
    LET st == IF args.status = "success" THEN from_buffer(args.value)
                                         ELSE w.cccd[c]
        w1 == [w EXCEPT !.cccd[c] = st]
    IN  [w1 EXCEPT !.res["write"] = Append(@, Fired("on_cccd_write_complete", c,
                        [id |-> args.id, value |-> st, status |-> args.status,
                         reason |-> args.reason]))]

\* Mutation: _write_complete is registered on the CCCD attribute as well.
on_complete_WriteOnBoth(w, c, attr, kind, args) ==
    CASE attr = "value" /\ kind = "read"  -> _read_complete(w, c, args)
      [] attr = "value" /\ kind = "write" -> _write_complete(w, c, args)
      [] attr = "cccd"  /\ kind = "write" ->
            _write_complete(_cccd_write_complete(w, c, args), c, args)
      [] OTHER -> w

\* The handlers __init__ registers on the value and CCCD attributes' events.
on_complete(w, c, attr, kind, args) ==
    CASE attr = "value" /\ kind = "read"  -> _read_complete(w, c, args)
      [] attr = "value" /\ kind = "write" -> _write_complete(w, c, args)
      [] attr = "cccd"  /\ kind = "write" -> _cccd_write_complete(w, c, args)
      [] OTHER -> w

\* The reason the manager reports with a status
\* (GattOperationCompleteReason).
ReasonOf(status) ==
    CASE status = "success" -> "SUCCESS"
      [] status = "error" -> "FAILED"
      [] status = "disconnected" -> "SERVER_DISCONNECTED"

\* GattcAttribute's completion callback: a successful read or write of the
\* value attribute refreshes the cache, then the attribute's event fires.
AttrComplete(w, r, status, data) ==
    LET c == OwnerOf(r.handle)
        attr == IF r.handle = HandleValue(c) THEN "value" ELSE "cccd"
        v == IF r.kind = "read" THEN data ELSE r.data
        w1 == IF status = "success" /\ attr = "value"
              THEN [w EXCEPT !.val[c] = v] ELSE w
    IN  on_complete(w1, c, attr, r.kind,
                    [id |-> r.id, value |-> v, status |-> status, reason |-> ReasonOf(status)])

RECURSIVE FailAll(_, _)
FailAll(w, reqs) ==
    IF reqs = <<>> THEN w
    ELSE FailAll(AttrComplete(w, Head(reqs), "disconnected", <<>>), Tail(reqs))

\* ------------------------------------------------------------------------
\* _ReadWriteManager
\* ------------------------------------------------------------------------
\* Mutation: the manager goes on accepting after the disconnect.
Accepts_Always(m) == TRUE

Accepts(m) == ~closed[m]

\* The request issued when the in-flight one completed with `status`.
PopNext(q, status) == IF q = <<>> THEN NoReq ELSE Head(q)

\* What a disconnect fails out for one kind, in order.
DrainOrder(infl, q) == (IF infl = NoReq THEN <<>> ELSE <<infl>>) \o q

Raise(op, c, exc) ==
    /\ lastCall' = exc
    /\ UNCHANGED mgrVars

\* Mutation: an accepted request always joins the queue, to be issued when a
\* completion pops it.
enqueue_QueueFirst(c, op, h, kind, handle, data, rsp) ==
    LET m == ManagerOf(c)
        r == [id |-> nextId, kind |-> kind, handle |-> handle, data |-> data, rsp |-> rsp]
    IN  IF ~Accepts(m) THEN Raise(op, c, "Disconnected")
        ELSE /\ nextId <= MaxRequests
             /\ lastCall' = "ok"
             /\ nextId' = nextId + 1
             /\ accepted' = Append(accepted, [id |-> nextId, op |-> op, c |-> c, h |-> h,
                                   kind |-> kind, handle |-> handle, data |-> data, rsp |-> rsp])
             /\ queue' = [queue EXCEPT ![m][kind] = Append(@, r)]
             /\ UNCHANGED <<inflight, transport, issued>>

enqueue(c, op, h, kind, handle, data, rsp) ==
    LET m == ManagerOf(c)
        r == [id |-> nextId, kind |-> kind, handle |-> handle, data |-> data, rsp |-> rsp]
    IN  IF ~Accepts(m) THEN Raise(op, c, "Disconnected")
        ELSE /\ nextId <= MaxRequests
             /\ lastCall' = "ok"
             /\ nextId' = nextId + 1
             /\ accepted' = Append(accepted, [id |-> nextId, op |-> op, c |-> c, h |-> h,
                                   kind |-> kind, handle |-> handle, data |-> data, rsp |-> rsp])
             /\ IF inflight[m][kind] = NoReq
                THEN /\ inflight' = [inflight EXCEPT ![m][kind] = r]
                     /\ transport' = transport \cup {r}
                     /\ issued' = [issued EXCEPT ![kind] = Append(@, r.id)]
                     /\ UNCHANGED queue
                ELSE /\ queue' = [queue EXCEPT ![m][kind] = Append(@, r)]
                     /\ UNCHANGED <<inflight, transport, issued>>

\* ------------------------------------------------------------------------
\* GattcCharacteristic: public methods
\* ------------------------------------------------------------------------
\* Mutation: the preference alone selects the mode.
SubscribeValue_PreferOnly(c, prefer_indications) ==
    IF prefer_indications THEN INDICATION ELSE NOTIFY

SubscribeValue(c, prefer_indications) ==
    IF (prefer_indications /\ props[c].indicate) \/ ~props[c].notify
    THEN INDICATION ELSE NOTIFY

\* Mutation: the subscription state is set when subscribe is called.
subscribe_Optimistic(c, h, prefer_indications) ==
    /\ hvxLog' = <<>>
    /\ UNCHANGED <<dbVars, props, value, closed, connected, resolved>>
    /\ IF ~subscribable(c)
       THEN Raise("subscribe", c, "InvalidOperation") /\ UNCHANGED <<handlers, cccd_state>>
       ELSE /\ handlers' = [handlers EXCEPT ![c] = register(@, h)]
            /\ IF ~props[c].cccd
               THEN Raise("subscribe", c, "AttributeError") /\ UNCHANGED cccd_state
               ELSE /\ enqueue(c, "subscribe", h, "write", HandleCccd(c),
                               to_buffer(SubscribeValue(c, prefer_indications)), TRUE)
                    /\ cccd_state' = [cccd_state EXCEPT ![c] =
                                         SubscribeValue(c, prefer_indications)]

\* Mutation: the handler is not registered by the call.
subscribe_NoRegister(c, h, prefer_indications) ==
    /\ hvxLog' = <<>>
    /\ UNCHANGED <<dbVars, props, cccd_state, value, closed, connected, resolved, handlers>>
    /\ IF ~subscribable(c)
       THEN Raise("subscribe", c, "InvalidOperation")
       ELSE IF ~props[c].cccd
            THEN Raise("subscribe", c, "AttributeError")
            ELSE enqueue(c, "subscribe", h, "write", HandleCccd(c),
                         to_buffer(SubscribeValue(c, prefer_indications)), TRUE)

\* Mutation: the handler is registered before the capability is checked.
subscribe_RegisterFirst(c, h, prefer_indications) ==
    /\ hvxLog' = <<>>
    /\ UNCHANGED <<dbVars, props, cccd_state, value, closed, connected, resolved>>
    /\ handlers' = [handlers EXCEPT ![c] = register(@, h)]
    /\ IF ~subscribable(c)
       THEN Raise("subscribe", c, "InvalidOperation")
       ELSE IF ~props[c].cccd
            THEN Raise("subscribe", c, "AttributeError")
            ELSE enqueue(c, "subscribe", h, "write", HandleCccd(c),
                         to_buffer(SubscribeValue(c, prefer_indications)), TRUE)

subscribe(c, h, prefer_indications) ==
    /\ hvxLog' = <<>>
    /\ UNCHANGED <<dbVars, props, cccd_state, value, closed, connected, resolved>>
    /\ IF ~subscribable(c)
       THEN Raise("subscribe", c, "InvalidOperation") /\ UNCHANGED handlers
       ELSE /\ handlers' = [handlers EXCEPT ![c] = register(@, h)]
            /\ IF ~props[c].cccd
               THEN Raise("subscribe", c, "AttributeError")
               ELSE enqueue(c, "subscribe", h, "write", HandleCccd(c),
                            to_buffer(SubscribeValue(c, prefer_indications)), TRUE)

\* Mutation: the handlers are left registered.
unsubscribe_NoClear(c) ==
    /\ hvxLog' = <<>>
    /\ UNCHANGED <<dbVars, props, cccd_state, value, closed, connected, resolved, handlers>>
    /\ IF ~subscribable(c)
       THEN Raise("unsubscribe", c, "InvalidOperation")
       ELSE IF ~props[c].cccd
       THEN Raise("unsubscribe", c, "AttributeError")
       ELSE enqueue(c, "unsubscribe", "", "write", HandleCccd(c),
                    to_buffer(NOT_SUBSCRIBED), TRUE)

\* Mutation: the handlers are cleared before the capability is checked.
unsubscribe_ClearFirst(c) ==
    /\ hvxLog' = <<>>
    /\ UNCHANGED <<dbVars, props, cccd_state, value, closed, connected, resolved>>
    /\ IF ~subscribable(c)
       THEN Raise("unsubscribe", c, "InvalidOperation")
            /\ handlers' = [handlers EXCEPT ![c] = <<>>]
       ELSE IF ~props[c].cccd
       THEN Raise("unsubscribe", c, "AttributeError") /\ UNCHANGED handlers
       ELSE /\ enqueue(c, "unsubscribe", "", "write", HandleCccd(c),
                       to_buffer(NOT_SUBSCRIBED), TRUE)
            /\ handlers' = IF Accepts(ManagerOf(c))
                           THEN [handlers EXCEPT ![c] = <<>>] ELSE handlers

unsubscribe(c) ==
    /\ hvxLog' = <<>>
    /\ UNCHANGED <<dbVars, props, cccd_state, value, closed, connected, resolved>>
    /\ IF ~subscribable(c)
       THEN Raise("unsubscribe", c, "InvalidOperation") /\ UNCHANGED handlers
       ELSE IF ~props[c].cccd
       THEN Raise("unsubscribe", c, "AttributeError") /\ UNCHANGED handlers
       ELSE /\ enqueue(c, "unsubscribe", "", "write", HandleCccd(c),
                       to_buffer(NOT_SUBSCRIBED), TRUE)
            /\ handlers' = IF Accepts(ManagerOf(c))
                           THEN [handlers EXCEPT ![c] = <<>>] ELSE handlers

\* Mutation: read reads the CCCD attribute.
read_CccdHandle(c) ==
    /\ hvxLog' = <<>>
    /\ UNCHANGED <<dbVars, props, cccd_state, handlers, value, closed, connected, resolved>>
    /\ IF ~readable(c)
       THEN Raise("read", c, "InvalidOperation")
       ELSE enqueue(c, "read", "", "read", HandleCccd(c), <<>>, FALSE)

\* Mutation: read does not check the capability.
read_Unchecked(c) ==
    /\ hvxLog' = <<>>
    /\ UNCHANGED <<dbVars, props, cccd_state, handlers, value, closed, connected, resolved>>
    /\ enqueue(c, "read", "", "read", HandleValue(c), <<>>, FALSE)

read(c) ==
    /\ hvxLog' = <<>>
    /\ UNCHANGED <<dbVars, props, cccd_state, handlers, value, closed, connected, resolved>>
    /\ IF ~readable(c)
       THEN Raise("read", c, "InvalidOperation")
       ELSE enqueue(c, "read", "", "read", HandleValue(c), <<>>, FALSE)

\* Mutation: write asks for a write without response.
write_NoResponse(c, data) ==
    /\ hvxLog' = <<>>
    /\ UNCHANGED <<dbVars, props, cccd_state, handlers, value, closed, connected, resolved>>
    /\ IF ~writable(c)
       THEN Raise("write", c, "InvalidOperation")
       ELSE enqueue(c, "write", "", "write", HandleValue(c), data, FALSE)

\* Mutation: the cache takes the data when the write is made.
write_Speculative(c, data) ==
    /\ hvxLog' = <<>>
    /\ UNCHANGED <<dbVars, props, cccd_state, handlers, closed, connected, resolved>>
    /\ IF ~writable(c)
       THEN Raise("write", c, "InvalidOperation") /\ UNCHANGED value
       ELSE /\ enqueue(c, "write", "", "write", HandleValue(c), data, TRUE)
            /\ value' = [value EXCEPT ![c] = data]

write(c, data) ==
    /\ hvxLog' = <<>>
    /\ UNCHANGED <<dbVars, props, cccd_state, handlers, value, closed, connected, resolved>>
    /\ IF ~writable(c)
       THEN Raise("write", c, "InvalidOperation")
       ELSE enqueue(c, "write", "", "write", HandleValue(c), data, TRUE)

write_without_response(c, data) ==
    /\ hvxLog' = <<>>
    /\ UNCHANGED <<dbVars, props, cccd_state, handlers, value, closed, connected, resolved>>
    /\ IF ~writable_without_response(c)
       THEN Raise("write_without_response", c, "InvalidOperation")
       ELSE enqueue(c, "write_without_response", "", "write", HandleValue(c), data, FALSE)

\* ------------------------------------------------------------------------
\* Transport completions and the disconnect
\* ------------------------------------------------------------------------
TransportComplete(r, status, data) ==
    /\ r \in transport
    /\ LET m == CHOOSE mm \in ManagerIds : inflight[mm][r.kind] = r
           w == AttrComplete([cccd |-> cccd_state, val |-> value, res |-> resolved,
                              hs |-> handlers], r, status, data)
           nxt == PopNext(queue[m][r.kind], status)
       IN  /\ cccd_state' = w.cccd
           /\ value' = w.val
           /\ resolved' = w.res
           /\ handlers' = w.hs
           /\ inflight' = [inflight EXCEPT ![m][r.kind] = nxt]
           /\ queue' = [queue EXCEPT ![m][r.kind] = IF nxt = NoReq THEN @ ELSE Tail(@)]
           /\ transport' = (transport \ {r}) \cup (IF nxt = NoReq THEN {} ELSE {nxt})
           /\ issued' = IF nxt = NoReq THEN issued
                        ELSE [issued EXCEPT ![r.kind] = Append(@, nxt.id)]
    /\ lastCall' = "none"
    /\ hvxLog' = <<>>
    /\ UNCHANGED <<dbVars, props, closed, nextId, connected, accepted>>

\* Every manager fails out its reads, then its writes.
RECURSIVE DrainAll(_)
DrainAll(ms) ==
    IF ms = <<>> THEN <<>>
    ELSE DrainOrder(inflight[Head(ms)]["read"], queue[Head(ms)]["read"])
         \o DrainOrder(inflight[Head(ms)]["write"], queue[Head(ms)]["write"])
         \o DrainAll(Tail(ms))

Disconnect ==
    /\ connected
    /\ LET w == FailAll([cccd |-> cccd_state, val |-> value, res |-> resolved,
                         hs |-> handlers], DrainAll(<<0, 1, 2>>))
       IN  /\ cccd_state' = w.cccd
           /\ value' = w.val
           /\ resolved' = w.res
           /\ handlers' = w.hs
    /\ inflight' = [m \in ManagerIds |-> [k \in Kinds |-> NoReq]]
    /\ queue' = [m \in ManagerIds |-> [k \in Kinds |-> <<>>]]
    /\ closed' = [m \in ManagerIds |-> TRUE]
    /\ transport' = {}
    /\ connected' = FALSE
    /\ lastCall' = "none"
    /\ hvxLog' = <<>>
    /\ UNCHANGED <<dbVars, props, nextId, accepted, issued>>

\* ------------------------------------------------------------------------
\* Indication / notification events (GattcEvtHvx)
\* w = [val, log]; event = [conn, attr, data, ind]
\* ------------------------------------------------------------------------
Confirm(c, event) ==
    [t |-> "confirm", c |-> c, h |-> "", value |-> <<>>, ind |-> TRUE,
     conn |-> event.conn, attr |-> event.attr]
Invoke(c, h, v, is_indication, event) ==
    [t |-> "handler", c |-> c, h |-> h, value |-> v, ind |-> is_indication,
     conn |-> event.conn, attr |-> event.attr]

\* Mutation: the confirmation is sent after the handlers have run.
_on_indication_notification_ConfirmLast(w, c, event) ==
    IF event.conn # PeerConn \/ event.attr # HandleValue(c) THEN w
    ELSE LET w2 == [w EXCEPT !.val[c] = event.data]
             w3 == [w2 EXCEPT !.log = @ \o [i \in 1..Len(handlers[c]) |->
                                Invoke(c, handlers[c][i], w2.val[c], event.ind, event)]]
         IN  IF event.ind THEN [w3 EXCEPT !.log = Append(@, Confirm(c, event))] ELSE w3

\* Mutation: an indication is confirmed only when a handler is registered.
_on_indication_notification_ConfirmIfHandled(w, c, event) ==
    IF event.conn # PeerConn \/ event.attr # HandleValue(c) THEN w
    ELSE LET w1 == IF event.ind /\ handlers[c] # <<>>
                   THEN [w EXCEPT !.log = Append(@, Confirm(c, event))] ELSE w
             w2 == [w1 EXCEPT !.val[c] = event.data]
         IN  [w2 EXCEPT !.log = @ \o [i \in 1..Len(handlers[c]) |->
                                Invoke(c, handlers[c][i], w2.val[c], event.ind, event)]]

\* Mutation: the event's connection handle is not compared.
_on_indication_notification_AnyConn(w, c, event) ==
    IF event.attr # HandleValue(c) THEN w
    ELSE LET w1 == IF event.ind THEN [w EXCEPT !.log = Append(@, Confirm(c, event))]
                                ELSE w
             w2 == [w1 EXCEPT !.val[c] = event.data]
         IN  [w2 EXCEPT !.log = @ \o [i \in 1..Len(handlers[c]) |->
                                Invoke(c, handlers[c][i], w2.val[c], event.ind, event)]]

\* Mutation: the cache follows events only while the characteristic is
\* subscribed.
_on_indication_notification_UpdateIfSubscribed(w, c, event) ==
    IF event.conn # PeerConn \/ event.attr # HandleValue(c) THEN w
    ELSE LET w1 == IF event.ind THEN [w EXCEPT !.log = Append(@, Confirm(c, event))]
                                ELSE w
             w2 == IF subscribed(c) THEN [w1 EXCEPT !.val[c] = event.data] ELSE w1
         IN  [w2 EXCEPT !.log = @ \o [i \in 1..Len(handlers[c]) |->
                                Invoke(c, handlers[c][i], w2.val[c], event.ind, event)]]

\* Mutation: the event does not touch the cache.
_on_indication_notification_NoUpdate(w, c, event) ==
    IF event.conn # PeerConn \/ event.attr # HandleValue(c) THEN w
    ELSE LET w1 == IF event.ind THEN [w EXCEPT !.log = Append(@, Confirm(c, event))]
                                ELSE w
         IN  [w1 EXCEPT !.log = @ \o [i \in 1..Len(handlers[c]) |->
                                Invoke(c, handlers[c][i], w1.val[c], event.ind, event)]]

\* Mutation: the handlers run before the cache is updated.
_on_indication_notification_UpdateLast(w, c, event) ==
    IF event.conn # PeerConn \/ event.attr # HandleValue(c) THEN w
    ELSE LET w1 == IF event.ind THEN [w EXCEPT !.log = Append(@, Confirm(c, event))]
                                ELSE w
             w2 == [w1 EXCEPT !.log = @ \o [i \in 1..Len(handlers[c]) |->
                                Invoke(c, handlers[c][i], w1.val[c], event.ind, event)]]
         IN  [w2 EXCEPT !.val[c] = event.data]

_on_indication_notification(w, c, event) ==
    IF event.conn # PeerConn \/ event.attr # HandleValue(c) THEN w
    ELSE LET w1 == IF event.ind THEN [w EXCEPT !.log = Append(@, Confirm(c, event))]
                                ELSE w
             w2 == [w1 EXCEPT !.val[c] = event.data]
         IN  [w2 EXCEPT !.log = @ \o [i \in 1..Len(handlers[c]) |->
                                Invoke(c, handlers[c][i], w2.val[c], event.ind, event)]]

\* The driver delivers the event to every characteristic's handler.
RECURSIVE DispatchHvx(_, _, _)
DispatchHvx(w, cs, event) ==
    IF cs = <<>> THEN w
    ELSE DispatchHvx(_on_indication_notification(w, Head(cs), event), Tail(cs), event)

\* Mutation: the event waits behind the write in flight, as a request would.
Hvx_BehindWrites(event) ==
    /\ connected
    /\ inflight[DbManager]["write"] = NoReq
    /\ LET w == DispatchHvx([val |-> value, log |-> <<>>], CharOrder, event)
       IN  /\ value' = w.val
           /\ hvxLog' = w.log
    /\ lastCall' = "none"
    /\ UNCHANGED <<dbVars, props, cccd_state, handlers, closed, connected, resolved>>
    /\ UNCHANGED mgrVars

Hvx(event) ==
    /\ connected
    /\ LET w == DispatchHvx([val |-> value, log |-> <<>>], CharOrder, event)
       IN  /\ value' = w.val
           /\ hvxLog' = w.log
    /\ lastCall' = "none"
    /\ UNCHANGED <<dbVars, props, cccd_state, handlers, closed, connected, resolved>>
    /\ UNCHANGED mgrVars

\* Events of this connection on any handle, and of a foreign connection.
Events == [conn : ConnHandles, attr : AllHandles, data : EventData, ind : BOOLEAN]

\* The peripheral pushes the value of a characteristic only if the
\* characteristic declares notify or indicate.
Pushable(event) == \A c \in Chars : event.attr = HandleValue(c) => subscribable(c)

\* Callbacks are opaque to the characteristic: a callback not seen before is
\* named by the first unused name.
KnownHandlers ==
    {accepted[i].h : i \in 1..Len(accepted)}
        \cup UNION {{handlers[c][i] : i \in 1..Len(handlers[c])} : c \in Chars}
Callable(h) ==
    \/ h \in KnownHandlers
    \/ \E i \in 1..Len(HandlerOrder) :
          /\ HandlerOrder[i] = h
          /\ \A j \in 1..(i - 1) : HandlerOrder[j] \in KnownHandlers

Next ==
    \/ \E c \in Chars, h \in Handlers, p \in BOOLEAN : Callable(h) /\ subscribe(c, h, p)
    \/ \E c \in Chars : unsubscribe(c)
    \/ \E c \in Chars : read(c)
    \/ \E c \in Chars, d \in WriteData : write(c, d)
    \/ \E c \in Chars, d \in WriteData : write_without_response(c, d)
    \/ \E r \in transport, status \in {"success", "error"} :
          \E d \in (IF r.kind = "read" /\ status = "success" THEN ReadData ELSE {<<>>}) :
             TransportComplete(r, status, d)
    \/ Disconnect
    \/ \E event \in Events : Pushable(event) /\ Hvx(event)

Spec == Init /\ [][Next]_vars

\* The same engine over the databases covering the capability combinations.
CapSpec == CapInit /\ [][Next]_vars

\* The same engine over the database with a characteristic lacking its CCCD.
NoCccdSpec == NoCccdInit /\ [][Next]_vars

\* The transport answers every request it was given.
Complete == \E r \in transport, status \in {"success", "error"}, d \in ReadData \cup {<<>>} :
                TransportComplete(r, status, d)
FairSpec == Spec /\ WF_vars(Complete)

\* on_notification_received.register(h): a caller registers a handler on the
\* notification event itself, without subscribing.
on_notification_received_register(c, h) ==
    /\ handlers' = [handlers EXCEPT ![c] = register(@, h)]
    /\ lastCall' = "registered"
    /\ hvxLog' = <<>>
    /\ UNCHANGED <<dbVars, props, cccd_state, value, closed, connected, resolved>>
    /\ UNCHANGED mgrVars

DirectNext ==
    \/ Next
    \/ \E c \in Chars, h \in Handlers :
          Callable(h) /\ on_notification_received_register(c, h)

\* The engine over a database without subscribable characteristics, with
\* callers that register on the notification event all the same.
DirectSpec == NoHvxInit /\ [][DirectNext]_vars

\* ------------------------------------------------------------------------
\* GattcDatabase, GattcService, GattcCharacteristic: lookups by UUID and the
\* growth of the database during discovery.
\* ------------------------------------------------------------------------
\* Mutation: the scan keeps looking and returns the last match.
RECURSIVE FindService_LastMatch(_, _)
FindService_LastMatch(svcs, service_uuid) ==
    IF svcs = <<>> THEN None
    ELSE IF uuid_equals(svcs[Len(svcs)].uuid, service_uuid) THEN Some(svcs[Len(svcs)])
    ELSE FindService_LastMatch(SubSeq(svcs, 1, Len(svcs) - 1), service_uuid)

\* GattcDatabase.find_service over the services svcs.
RECURSIVE FindService(_, _)
FindService(svcs, service_uuid) ==
    IF svcs = <<>> THEN None
    ELSE IF uuid_equals(Head(svcs).uuid, service_uuid) THEN Some(Head(svcs))
    ELSE FindService(Tail(svcs), service_uuid)

\* GattcService.find_characteristic and the loop of
\* GattcDatabase.find_characteristic, over the characteristics chars.
RECURSIVE FindCharacteristic(_, _)
FindCharacteristic(chars, characteristic_uuid) ==
    IF chars = <<>> THEN None
    ELSE IF uuid_equals(Head(chars).uuid, characteristic_uuid) THEN Some(Head(chars))
    ELSE FindCharacteristic(Tail(chars), characteristic_uuid)

\* GattcDatabase.iter_characteristics: the characteristics of the services in
\* order, those of one service in order.
RECURSIVE iter_characteristics(_)
iter_characteristics(svcs) ==
    IF svcs = <<>> THEN <<>>
    ELSE Head(svcs).characteristics \o iter_characteristics(Tail(svcs))

\* Mutation: find_descriptor returns the last attribute that matches.
RECURSIVE FindDescriptor_LastMatch(_, _)
FindDescriptor_LastMatch(attributes, uuid) ==
    IF attributes = <<>> THEN None
    ELSE IF uuid_equals(attributes[Len(attributes)].uuid, uuid)
    THEN Some(attributes[Len(attributes)])
    ELSE FindDescriptor_LastMatch(SubSeq(attributes, 1, Len(attributes) - 1), uuid)

\* GattcCharacteristic.find_descriptor over the characteristic's attributes.
RECURSIVE FindDescriptor(_, _)
FindDescriptor(attributes, uuid) ==
    IF attributes = <<>> THEN None
    ELSE IF uuid_equals(Head(attributes).uuid, uuid) THEN Some(Head(attributes))
    ELSE FindDescriptor(Tail(attributes), uuid)

Lookup(op, uuid, at, result) == [op |-> op, uuid |-> <<uuid>>, at |-> at, result |-> result]

find_service(service_uuid) ==
    /\ found' = Lookup("find_service", service_uuid, <<>>,
                       FindService(services, service_uuid))
    /\ UNCHANGED services
    /\ UNCHANGED engineVars

find_characteristic(characteristic_uuid) ==
    /\ found' = Lookup("find_characteristic", characteristic_uuid, <<>>,
                       FindCharacteristic(iter_characteristics(services),
                                          characteristic_uuid))
    /\ UNCHANGED services
    /\ UNCHANGED engineVars

\* GattcService.find_characteristic of the s-th service.
service_find_characteristic(s, characteristic_uuid) ==
    /\ found' = Lookup("service.find_characteristic", characteristic_uuid, <<s>>,
                       FindCharacteristic(services[s].characteristics,
                                          characteristic_uuid))
    /\ UNCHANGED services
    /\ UNCHANGED engineVars

\* find_descriptor of the c-th characteristic of the s-th service.
find_descriptor(s, c, uuid) ==
    /\ found' = Lookup("find_descriptor", uuid, <<s, c>>,
                       FindDescriptor(services[s].characteristics[c].attributes, uuid))
    /\ UNCHANGED services
    /\ UNCHANGED engineVars

add_discovered_services(nrf_services) ==
    /\ Len(services) + Len(nrf_services) <= MaxServices
    /\ services' = Discovered(services, nrf_services)
    /\ found' = [op |-> "add_discovered_services", uuid |-> <<>>, at |-> <<>>,
                 result |-> None]
    /\ UNCHANGED engineVars

\* What discovery may still report of the peer: a second battery service
\* whose characteristic was discovered without its declaration; a vendor's
\* service with a characteristic discovered without its value but with two
\* user descriptions, and a battery level discovered with no descriptors at
\* all; a second, empty instance of the vendor's service.
SvcBatteryAgain ==
    NrfService(NrfUuid("ble", 6159), 30, 39,
        <<NrfCharacteristic(NrfUuid("ble", 10777), PNotifyOnly, 30, 31,
              <<NrfDesc(NrfUuid("ble", 10777), 31), NrfDesc(NrfUuid("ble", 10498), 32)>>)>>)
SvcVendor ==
    NrfService(NrfUuid("vendor", 1), 40, 49,
        <<NrfCharacteristic(NrfUuid("vendor", 2), PPlain, 40, 41,
              <<NrfDesc(NrfUuid("ble", 10243), 40), NrfDesc(NrfUuid("ble", 10497), 42),
                NrfDesc(NrfUuid("ble", 10497), 43)>>),
          NrfCharacteristic(NrfUuid("ble", 10777), PPlain, 45, 46, <<>>)>>)
SvcVendorEmpty == NrfService(NrfUuid("vendor", 1), 50, 59, <<>>)
NrfServices == {SvcBatteryAgain, SvcVendor, SvcVendorEmpty}

\* The lists one discovery round may report: services not reported before,
\* by ascending handle or not.
Batches ==
    {<<>>} \cup {<<a>> : a \in NrfServices}
           \cup {p \in {<<a, b>> : a \in NrfServices, b \in NrfServices} : p[1] # p[2]}
Reportable(nrf_services) ==
    \A i \in 1..Len(nrf_services), j \in 1..Len(services) :
       nrf_services[i].start_handle # services[j].start_handle

\* The UUIDs callers look up, in 16-bit and in 128-bit form.
LookupUuids ==
    {ServiceUuid_battery_service, Expanded(ServiceUuid_battery_service),
     ServiceUuid_device_information,
     Uuid128(<<1>> \o VendorTail), Uuid128(<<2>> \o VendorTail),
     CharacteristicUuid_battery_level, Expanded(CharacteristicUuid_battery_level),
     CharacteristicUuid_device_name,
     DeclarationUuid_characteristic, DescriptorUuid_user_description,
     DescriptorUuid_cccd, Expanded(DescriptorUuid_cccd)}

DbNext ==
    \/ \E nrf_services \in Batches :
          Reportable(nrf_services) /\ add_discovered_services(nrf_services)
    \/ \E u \in LookupUuids : find_service(u)
    \/ \E u \in LookupUuids : find_characteristic(u)
    \/ \E s \in 1..Len(services), u \in LookupUuids : service_find_characteristic(s, u)
    \/ \E s \in 1..Len(services), u \in LookupUuids :
          \E c \in 1..Len(services[s].characteristics) : find_descriptor(s, c, u)

\* The database of one peer during and after discovery.
DbSpec == Init /\ [][DbNext]_vars

\* ------------------------------------------------------------------------
\* Histories read by the properties
\* ------------------------------------------------------------------------
IsPrefix(s, t) == Len(s) <= Len(t) /\ \A i \in 1..Len(s) : s[i] = t[i]
AcceptedOf(k) == SelectSeq(accepted, LAMBDA a : a.kind = k)
AcceptedIds(k) == [i \in 1..Len(AcceptedOf(k)) |-> AcceptedOf(k)[i].id]
ResolvedIds(k) == [i \in 1..Len(resolved[k]) |-> resolved[k][i].args.id]
ResolvedIdSet(k) == {resolved[k][i].args.id : i \in 1..Len(resolved[k])}
\* The accepted requests of kind k that have not been resolved, oldest first.
UnresolvedOf(k) == SelectSeq(AcceptedOf(k), LAMBDA a : a.id \notin ResolvedIdSet(k))
UnresolvedIds(k) == {UnresolvedOf(k)[i].id : i \in 1..Len(UnresolvedOf(k))}
OutstandingIds(k) == {r.id : r \in {x \in transport : x.kind = k}}
QueuedIds(k) == {queue[DbManager][k][i].id : i \in 1..Len(queue[DbManager][k])}

C2_OneOutstandingPerKind ==
    \A k \in Kinds :
        /\ Cardinality({r \in transport : r.kind = k}) <= 1
        /\ OutstandingIds(k) \subseteq UnresolvedIds(k)
        /\ UnresolvedIds(k) \ OutstandingIds(k) = QueuedIds(k)

\* A request of one characteristic is at the transport while a request of the
\* same kind of the other characteristic waits in the queue.
C2_Witness ==
    \E k \in Kinds :
        /\ Cardinality({r \in transport : r.kind = k}) = 1
        /\ Len(queue[DbManager][k]) = 1
        /\ OwnerOf(inflight[DbManager][k].handle) # OwnerOf(queue[DbManager][k][1].handle)


\* The statuses of the events of log fired after the first n.
StatusesFrom(log, n) == {log[i].args.status : i \in (n + 1)..Len(log)}

\* C3, at the disconnect: the step resolves exactly the unresolved requests of
\* each kind, oldest first, each with a Disconnected failure.
C3_DisconnectStep ==
    (connected /\ ~connected') =>
        \A k \in Kinds :
            /\ ResolvedIds(k)' = ResolvedIds(k) \o [i \in 1..Len(UnresolvedOf(k)) |-> UnresolvedOf(k)[i].id]
            /\ StatusesFrom(resolved'[k], Len(resolved[k])) \subseteq {"disconnected"}
            /\ \A i \in 1..Len(resolved[k]) : resolved'[k][i] = resolved[k][i]

\* C3, afterwards: nothing is queued, in flight or unresolved.
C3_Drained ==
    ~connected =>
        /\ transport = {}
        /\ \A k \in Kinds :
              /\ queue[DbManager][k] = <<>>
              /\ inflight[DbManager][k] = NoReq
              /\ UnresolvedOf(k) = <<>>

\* C3, afterwards: no call is accepted and nothing reaches the transport.
C3_Rejects ==
    ~connected =>
        /\ lastCall' # "ok"
        /\ UNCHANGED <<accepted, transport, inflight, queue, issued, resolved>>

\* C3: a disconnect resolves every in-flight and queued read and write with
\* Disconnected, in FIFO order, leaving none unresolved; afterwards the queues
\* are empty, nothing is in flight and every enqueue is rejected.
C3_DisconnectFailsAll ==
    /\ []C3_Drained
    /\ [][C3_DisconnectStep]_vars
    /\ [][C3_Rejects]_vars

\* A write in flight and a write queued behind it were both failed by the
\* disconnect, and a call made afterwards was rejected.
C3_Witness ==
    /\ ~connected
    /\ Len(resolved["write"]) = 2
    /\ resolved["write"][1].args.status = "disconnected"
    /\ resolved["write"][2].args.status = "disconnected"
    /\ lastCall = "Disconnected"


AcceptedIdSet == {accepted[i].id : i \in 1..Len(accepted)}
IssuedIdSet == UNION {{issued[k][i] : i \in 1..Len(issued[k])} : k \in Kinds}
ResolvedAll == UNION {ResolvedIdSet(k) : k \in Kinds}

\* C4, the step: when a completion resolves the oldest unresolved request of a
\* kind, whatever its status, the next unresolved request of that kind is the
\* one issued to the transport.
C4_IssuesNext ==
    \A k \in Kinds :
        (connected' /\ Len(resolved'[k]) = Len(resolved[k]) + 1 /\ Len(UnresolvedOf(k)) >= 2) =>
            /\ OutstandingIds(k)' = {UnresolvedOf(k)[2].id}
            /\ issued'[k] = Append(issued[k], UnresolvedOf(k)[2].id)

\* C4, the outcome: every accepted request is eventually issued and resolved,
\* unless the connection drops.
C4_EventuallyResolved ==
    \A id \in 1..MaxRequests :
        (id \in AcceptedIdSet) ~> (~connected \/ (id \in IssuedIdSet /\ id \in ResolvedAll))

\* C4: a transport completion, success or error, makes the manager issue the
\* next queued request of that kind; so if the transport completes every
\* issued request and no disconnect occurs, every enqueued request is
\* eventually issued and resolved, also after earlier requests failed.
C4_QueueProgress == [][C4_IssuesNext]_vars /\ C4_EventuallyResolved

\* A read failed with a transport error and the read queued behind it was
\* issued and has succeeded.
C4_Witness ==
    /\ connected
    /\ Len(resolved["read"]) = 2
    /\ resolved["read"][1].args.status = "error"
    /\ resolved["read"][2].args.status = "success"
    /\ resolved["read"][2].args.id \in IssuedIdSet


\* ------------------------------------------------------------------------
\* Subscription state
\* ------------------------------------------------------------------------
\* The subscription state a two-byte CCCD value stands for.
StateOfBuffer(b) ==
    CASE b = <<0, 0>> -> NOT_SUBSCRIBED
      [] b = <<1, 0>> -> NOTIFY
      [] b = <<2, 0>> -> INDICATION
      [] OTHER -> -1
AcceptedById(id) == CHOOSE a \in {accepted[i] : i \in 1..Len(accepted)} : a.id = id
IsCccdResolution(e, c) ==
    AcceptedById(e.args.id).op \in {"subscribe", "unsubscribe"} /\ AcceptedById(e.args.id).c = c
\* The CCCD writes of c that completed with success, oldest first.
CccdSuccesses(c) ==
    SelectSeq(resolved["write"], LAMBDA e : IsCccdResolution(e, c) /\ e.args.status = "success")
LastConfirmed(c) ==
    IF CccdSuccesses(c) = <<>> THEN NOT_SUBSCRIBED
    ELSE StateOfBuffer(AcceptedById(CccdSuccesses(c)[Len(CccdSuccesses(c))].args.id).data)
\* The CCCD writes of c that are queued or in flight.
PendingCccd(c) ==
    {i \in 1..Len(accepted) : /\ accepted[i].op \in {"subscribe", "unsubscribe"}
                              /\ accepted[i].c = c
                              /\ accepted[i].id \notin ResolvedIdSet("write")}

\* C5: the subscription state is never set optimistically: it always equals the
\* value of the last CCCD write that completed with success (NOT_SUBSCRIBED if
\* none has), so a subscribe or unsubscribe call does not change it and it
\* keeps that value while CCCD writes are queued or in flight.
C5_StateIsLastConfirmed ==
    \A c \in Chars :
        /\ cccd_state[c] = LastConfirmed(c)
        /\ subscribed(c) <=> (LastConfirmed(c) # NOT_SUBSCRIBED)

\* A subscribe has been confirmed and an unsubscribe is queued or in flight:
\* the state still is the confirmed one, not the one being written.
C5_Witness ==
    \E i \in PendingCccd(1) :
        /\ accepted[i].op = "unsubscribe"
        /\ cccd_state[1] \in {NOTIFY, INDICATION}

\* The events the step fired for CCCD writes of c.
NewCccd(c) ==
    {e \in {resolved'["write"][i] : i \in (Len(resolved["write"]) + 1)..Len(resolved'["write"])} :
        IsCccdResolution(e, c)}

\* C6, as a step: a CCCD write completing with success makes the state the
\* value written, and `subscribed` true iff that is not NOT_SUBSCRIBED; one
\* completing with another status leaves the state as it was.
C6_Step ==
    \A c \in Chars :
        NewCccd(c) # {} =>
            IF \E e \in NewCccd(c) : e.args.status = "success"
            THEN \E e \in NewCccd(c) :
                    /\ e.args.status = "success"
                    /\ cccd_state'[c] = StateOfBuffer(AcceptedById(e.args.id).data)
                    /\ subscribed(c)' <=> (StateOfBuffer(AcceptedById(e.args.id).data) # NOT_SUBSCRIBED)
            ELSE cccd_state'[c] = cccd_state[c]

\* C6: on a successful CCCD write completion subscription_state becomes the
\* value written and `subscribed` is true iff it is not NOT_SUBSCRIBED; on any
\* other completion subscription_state is unchanged.
C6_CccdCompletion == [][C6_Step]_vars

\* A subscribe succeeded, then an unsubscribe failed: still subscribed.
C6_Witness ==
    /\ Len(resolved["write"]) = 2
    /\ resolved["write"][1].args.status = "success"
    /\ resolved["write"][2].args.status = "error"
    /\ IsCccdResolution(resolved["write"][1], 1)
    /\ IsCccdResolution(resolved["write"][2], 1)
    /\ AcceptedById(resolved["write"][2].args.id).op = "unsubscribe"
    /\ subscribed(1)

\* ------------------------------------------------------------------------
\* Notification dispatch
\* ------------------------------------------------------------------------
Matches(c, event) == event.conn = PeerConn /\ event.attr = HandleValue(c)
\* The step is the dispatch of event.
HvxStep(event) == lastCall' = "none" /\ connected' /\ transport' = transport /\ Hvx(event)
InvokedHandlers(log, c) ==
    {log[i].h : i \in {j \in 1..Len(log) : log[j].t = "handler" /\ log[j].c = c}}
Confirms(log) == SelectSeq(log, LAMBDA e : e.t = "confirm")
\* The subscribe calls on c whose CCCD write is queued or in flight.
PendingSubscribes(c) == {i \in PendingCccd(c) : accepted[i].op = "subscribe"}
UnsubscribedAfter(i) ==
    \E j \in (i + 1)..Len(accepted) :
        accepted[j].op = "unsubscribe" /\ accepted[j].c = accepted[i].c

\* C7 as stated: every event on the value handle processed while a subscribe's
\* CCCD write is queued or in flight is dispatched to that subscribe's handler.
C7_Original_Step ==
    \A c \in Chars, event \in Events :
        (Matches(c, event) /\ HvxStep(event)) =>
            \A i \in PendingSubscribes(c) : accepted[i].h \in InvokedHandlers(hvxLog', c)
C7_Original == [][C7_Original_Step]_vars

C7_Step ==
    \A c \in Chars, event \in Events :
        (Matches(c, event) /\ HvxStep(event)) =>
            \A i \in PendingSubscribes(c) :
                ~UnsubscribedAfter(i) => accepted[i].h \in InvokedHandlers(hvxLog', c)

\* C7, amended: subscribe registers the handler at call time, so every event on
\* the value handle processed while its CCCD write is queued or in flight is
\* dispatched to that handler, unless unsubscribe was called after it.
C7_HandlerRegisteredAtCall ==
    /\ [][C7_Step]_vars
    /\ [](\A c \in Chars : \A i \in PendingSubscribes(c) :
             ~UnsubscribedAfter(i) => \E n \in 1..Len(handlers[c]) : handlers[c][n] = accepted[i].h)

\* An event was dispatched to the handler of a subscribe whose CCCD write has
\* not completed, and the characteristic is not yet subscribed.
C7_Witness ==
    \E i \in PendingSubscribes(1) :
        /\ accepted[i].h \in InvokedHandlers(hvxLog, 1)
        /\ ~subscribed(1)

\* The last subscribe or unsubscribe call accepted for c.
SubCalls(c) == SelectSeq(accepted, LAMBDA a : a.op \in {"subscribe", "unsubscribe"} /\ a.c = c)
LastSubOp(c) == IF SubCalls(c) = <<>> THEN "none" ELSE SubCalls(c)[Len(SubCalls(c))].op

C8_Step ==
    \A c \in Chars, event \in Events :
        (Matches(c, event) /\ LastSubOp(c) = "unsubscribe" /\ HvxStep(event)) =>
            InvokedHandlers(hvxLog', c) = {}

C9_ConfirmBeforeHandlers ==
    \A j \in 1..Len(hvxLog) :
        (hvxLog[j].t = "handler" /\ hvxLog[j].ind) =>
            /\ \E i \in 1..(j - 1) :
                  /\ hvxLog[i].t = "confirm"
                  /\ hvxLog[i].c = hvxLog[j].c
                  /\ hvxLog[i].attr = hvxLog[j].attr
            /\ \A i \in (j + 1)..Len(hvxLog) : hvxLog[i].t # "confirm"

\* An indication was confirmed and then delivered to two handlers.
C9_Witness ==
    /\ Len(hvxLog) = 3
    /\ hvxLog[1].t = "confirm"
    /\ hvxLog[2].t = "handler"
    /\ hvxLog[3].t = "handler"

C10_Step ==
    \A event \in Events :
        HvxStep(event) =>
            IF event.ind /\ \E c \in Chars : Matches(c, event)
            THEN /\ Len(Confirms(hvxLog')) = 1
                 /\ Confirms(hvxLog')[1].conn = event.conn
                 /\ Confirms(hvxLog')[1].attr = event.attr
            ELSE Confirms(hvxLog') = <<>>

\* C10: an event on a value handle is confirmed exactly once if it is an
\* indication and not at all if it is a notification, whatever the
\* subscription state and whether or not a handler is registered.
C10_OneConfirmPerIndication == [][C10_Step]_vars

\* An indication was confirmed on a characteristic nobody ever subscribed to.
C10_Witness ==
    /\ accepted = <<>>
    /\ handlers[1] = <<>>
    /\ ~subscribed(1)
    /\ Len(hvxLog) = 1
    /\ hvxLog[1].t = "confirm"
    /\ hvxLog[1].c = 1

\* ------------------------------------------------------------------------
\* Capability gating and the calls' requests
\* ------------------------------------------------------------------------
\* The step is a call that the manager accepted.
AcceptStep == lastCall' = "ok" /\ Len(accepted') = Len(accepted) + 1
NewAccepted == accepted'[Len(accepted')]
\* The requests the manager holds: at the transport or queued.
Held ==
    transport \cup UNION {{queue[m][k][i] : i \in 1..Len(queue[m][k])} :
                              m \in ManagerIds, k \in Kinds}
RequestOf(a) ==
    [id |-> a.id, kind |-> a.kind, handle |-> a.handle, data |-> a.data, rsp |-> a.rsp]

C11_Step ==
    AcceptStep =>
        \A c \in Chars, h \in Handlers, p \in BOOLEAN :
            subscribe(c, h, p) =>
                /\ NewAccepted.kind = "write"
                /\ NewAccepted.handle = HandleCccd(c)
                /\ NewAccepted.data =
                      IF (p /\ props[c].indicate) \/ ~props[c].notify
                      THEN <<2, 0>> ELSE <<1, 0>>
                /\ RequestOf(NewAccepted) \in Held'

\* No CCCD write of a subscribe carries a mode the characteristic lacks.
C11_Supported ==
    \A i \in 1..Len(accepted) :
        accepted[i].op = "subscribe" =>
            \/ accepted[i].data = <<2, 0>> /\ props[accepted[i].c].indicate
            \/ accepted[i].data = <<1, 0>> /\ props[accepted[i].c].notify

\* C11: for every combination of notify and indicate with at least one set and
\* either value of prefer_indications, subscribe writes INDICATION ([2, 0]) to
\* the CCCD iff (prefer_indications and indicate) or not notify, and NOTIFY
\* ([1, 0]) otherwise; it never writes a mode the characteristic lacks.
C11_SelectionRule == [][C11_Step]_vars /\ []C11_Supported

\* A subscribe on a characteristic that can only indicate has INDICATION at
\* the transport.
C11_Witness ==
    /\ props[1].indicate /\ ~props[1].notify
    /\ \E r \in transport : r.handle = HandleCccd(1) /\ r.data = <<2, 0>>

\* The step leaves the manager, the transport and the histories alone.
NothingEnqueued == UNCHANGED <<inflight, queue, nextId, transport, accepted, issued, resolved>>

C12_Step ==
    \A c \in Chars, h \in Handlers, p \in BOOLEAN :
        (~subscribable(c) /\ subscribe(c, h, p)) =>
            /\ lastCall' = "InvalidOperation"
            /\ handlers' = handlers
            /\ cccd_state' = cccd_state
            /\ NothingEnqueued

\* A characteristic that can neither notify nor indicate never has a handler,
\* a CCCD write or a subscription.
C12_NeverSubscribed ==
    \A c \in Chars :
        ~subscribable(c) =>
            /\ handlers[c] = <<>>
            /\ cccd_state[c] = NOT_SUBSCRIBED
            /\ \A i \in 1..Len(accepted) : accepted[i].handle # HandleCccd(c)
            /\ \A r \in Held : r.handle # HandleCccd(c)

\* C12: subscribe() on a characteristic with neither notify nor indicate fails
\* at the call with InvalidOperation and has no effect: no handler is
\* registered, no CCCD write is enqueued and subscription_state is unchanged.
C12_SubscribeRefused == [][C12_Step]_vars /\ []C12_NeverSubscribed

\* Beside a characteristic that allows every call, a call on the one that can
\* neither notify nor indicate was refused, and nothing was registered or
\* enqueued.
C12_Witness ==
    /\ props[1] = PNotifyOnly
    /\ ~subscribable(2)
    /\ lastCall = "InvalidOperation"
    /\ handlers[2] = <<>>
    /\ accepted = <<>>
    /\ transport = {}

\* The step hands the manager exactly one request, of the given kind, for the
\* value attribute of c.
OneEnqueued(c, op, kind) ==
    /\ AcceptStep
    /\ nextId' = nextId + 1
    /\ \A i \in 1..Len(accepted) : accepted'[i] = accepted[i]
    /\ NewAccepted.id = nextId
    /\ NewAccepted.op = op
    /\ NewAccepted.c = c
    /\ NewAccepted.kind = kind
    /\ NewAccepted.handle = HandleValue(c)
    /\ RequestOf(NewAccepted) \notin Held
    /\ Held' = Held \cup {RequestOf(NewAccepted)}
    /\ resolved' = resolved

\* The outcome of a call gated by the capability `flag`.
Gated(flag, c, op, kind) ==
    IF ~flag THEN lastCall' = "InvalidOperation" /\ NothingEnqueued
    ELSE IF connected THEN OneEnqueued(c, op, kind)
    ELSE lastCall' = "Disconnected" /\ NothingEnqueued

C13_Step ==
    \A c \in Chars :
        /\ read(c) => Gated(props[c].read, c, "read", "read")
        /\ \A d \in WriteData :
              /\ write(c, d) => Gated(props[c].write, c, "write", "write")
              /\ write_without_response(c, d) =>
                    Gated(props[c].write_no_response, c, "write_without_response", "write")

\* Every completion delivered for a read or a value write belongs to an
\* accepted call on a characteristic that has the capability.
C13_CompletionsOfAccepted ==
    \A k \in Kinds : \A i \in 1..Len(resolved[k]) :
        /\ resolved[k][i].args.id \in AcceptedIdSet
        /\ LET a == AcceptedById(resolved[k][i].args.id)
           IN  /\ a.c = resolved[k][i].c
               /\ a.op = "read" => props[a.c].read
               /\ a.op = "write" => props[a.c].write
               /\ a.op = "write_without_response" => props[a.c].write_no_response

\* C13: read(), write() and write_without_response() fail at the call with
\* InvalidOperation when the read, write or write-no-response flag is not set,
\* nothing is enqueued and no completion is ever delivered for the call; when
\* the flag is set (and the connection is up) exactly one request for the
\* value attribute is enqueued.
C13_CapabilityGates == [][C13_Step]_vars /\ []C13_CompletionsOfAccepted

\* On the characteristic that can be neither read nor written a call was
\* refused before anything was ever enqueued.
C13_Witness ==
    /\ props[1] = PIndicateOnly
    /\ lastCall = "InvalidOperation"
    /\ nextId = 1
    /\ accepted = <<>>
    /\ resolved = [k \in Kinds |-> <<>>]

C14_Step ==
    AcceptStep =>
        \A c \in Chars, d \in WriteData :
            /\ write(c, d) =>
                  /\ NewAccepted.op = "write"
                  /\ RequestOf(NewAccepted) =
                        [id |-> nextId, kind |-> "write", handle |-> HandleValue(c),
                         data |-> d, rsp |-> TRUE]
            /\ write_without_response(c, d) =>
                  /\ NewAccepted.op = "write_without_response"
                  /\ RequestOf(NewAccepted) =
                        [id |-> nextId, kind |-> "write", handle |-> HandleValue(c),
                         data |-> d, rsp |-> FALSE]

\* What is at the transport for a write() or write_without_response() call is
\* the request made at the call, whether it was issued at once or queued first.
C14_Issued ==
    \A r \in transport :
        r.id \in AcceptedIdSet /\
        LET a == AcceptedById(r.id)
        IN  a.op \in {"write", "write_without_response"} =>
                /\ r = RequestOf(a)
                /\ r.kind = "write"
                /\ r.handle = HandleValue(a.c)
                /\ r.rsp = (a.op = "write")

NoTransportIo == UNCHANGED <<transport, inflight, queue, issued, accepted, resolved>>

\* C15 as stated: after the drop every call fails with Disconnected.
C15_Original_Step ==
    ~connected =>
        \A c \in Chars :
            /\ (\E h \in Handlers, p \in BOOLEAN : subscribe(c, h, p)) =>
                    lastCall' = "Disconnected" /\ NoTransportIo
            /\ unsubscribe(c) => lastCall' = "Disconnected" /\ NoTransportIo
            /\ read(c) => lastCall' = "Disconnected" /\ NoTransportIo
            /\ \A d \in WriteData :
                  /\ write(c, d) => lastCall' = "Disconnected" /\ NoTransportIo
                  /\ write_without_response(c, d) =>
                        lastCall' = "Disconnected" /\ NoTransportIo
C15_Original == [][C15_Original_Step]_vars

\* What a call fails with after the drop: the capability is checked before
\* the attribute and its manager are reached.
FailsWith(capable) == IF capable THEN "Disconnected" ELSE "InvalidOperation"
SubscribeFailsWith(c) ==
    IF subscribable(c) /\ ~props[c].cccd THEN "AttributeError"
    ELSE FailsWith(subscribable(c))

C15_Step ==
    ~connected =>
        \A c \in Chars :
            /\ (\E h \in Handlers, p \in BOOLEAN : subscribe(c, h, p)) =>
                    lastCall' = SubscribeFailsWith(c) /\ NoTransportIo
            /\ unsubscribe(c) => lastCall' = SubscribeFailsWith(c) /\ NoTransportIo
            /\ read(c) => lastCall' = FailsWith(props[c].read) /\ NoTransportIo
            /\ \A d \in WriteData :
                  /\ write(c, d) => lastCall' = FailsWith(props[c].write) /\ NoTransportIo
                  /\ write_without_response(c, d) =>
                        lastCall' = FailsWith(props[c].write_no_response) /\ NoTransportIo

\* After the drop nothing is at the transport, no call has succeeded and the
\* connection stays down.
C15_Terminal == ~connected => (transport = {} /\ lastCall # "ok")

\* C15, amended: once the connection has dropped, every newly attempted read,
\* write, write_without_response, subscribe or unsubscribe fails, with
\* Disconnected when the characteristic has the capability for it and with
\* InvalidOperation when it has not, and issues no transport read or write; no
\* operation on that database ever succeeds again.
C15_FailsAfterDrop ==
    /\ [][C15_Step]_vars
    /\ []C15_Terminal
    /\ [][~connected => ~connected']_vars

\* On a database that was never used the connection dropped and a call was
\* then refused with Disconnected.
C15_Witness ==
    /\ ~connected
    /\ lastCall = "Disconnected"
    /\ accepted = <<>>
    /\ resolved = [k \in Kinds |-> <<>>]

\* ------------------------------------------------------------------------
\* Completions and the waitables the calls return
\* ------------------------------------------------------------------------
\* The event of the characteristic on which the waitable a call returns
\* listens: IdBasedEventWaitable(event, waitable.id).
SignalOf(op) ==
    CASE op = "read" -> "on_read_complete"
      [] op \in {"write", "write_without_response"} -> "on_write_complete"
      [] op \in {"subscribe", "unsubscribe"} -> "on_cccd_write_complete"

\* The fired events that resolve the waitable returned for accepted call a:
\* those of its characteristic's event that carry its request id.
Resolutions(a) ==
    {<<k, i>> \in {<<kk, ii>> \in Kinds \X (1..MaxRequests) : ii <= Len(resolved[kk])} :
        /\ resolved[k][i].sig = SignalOf(a.op)
        /\ resolved[k][i].c = a.c
        /\ resolved[k][i].args.id = a.id}
AcceptedSet == {accepted[i] : i \in 1..Len(accepted)}

\* No waitable is resolved twice, and every fired event resolves the waitable
\* of exactly one accepted call.
C16_AtMostOnce ==
    /\ \A a \in AcceptedSet : Cardinality(Resolutions(a)) <= 1
    /\ \A k \in Kinds : \A i \in 1..Len(resolved[k]) :
          Cardinality({a \in AcceptedSet : <<k, i>> \in Resolutions(a)}) = 1

\* A transport completion of request r fires one event: on the signal of the
\* call that made r, with r's id and the transport's status and data.
C16_Step ==
    \A r \in transport, status \in {"success", "error"}, d \in ReadData \cup {<<>>} :
        TransportComplete(r, status, d) =>
            /\ r.id \in AcceptedIdSet
            /\ Len(resolved'[r.kind]) = Len(resolved[r.kind]) + 1
            /\ \A k \in Kinds \ {r.kind} : resolved'[k] = resolved[k]
            /\ LET e == resolved'[r.kind][Len(resolved'[r.kind])]
                   a == AcceptedById(r.id)
               IN  /\ e.sig = SignalOf(a.op)
                   /\ e.c = a.c
                   /\ e.args.id = a.id
                   /\ e.args.status = status
                   /\ a.op = "read" => e.args.value = d

\* Every accepted call's waitable is resolved in the end.
C16_Resolved ==
    \A id \in 1..MaxRequests :
        (id \in AcceptedIdSet) ~> (\E a \in AcceptedSet : a.id = id /\ Resolutions(a) # {})

\* C16: every accepted read, write, subscribe and unsubscribe is resolved
\* exactly once, with its own outcome, on the completion signal keyed by its
\* own request id; the completion of one request never resolves the waitable
\* of another, also with several operations of one kind outstanding on one
\* characteristic.
C16_RoutedById == []C16_AtMostOnce /\ [][C16_Step]_vars /\ C16_Resolved

\* Two reads of one characteristic were outstanding together; the first
\* succeeded and the second failed, each resolving its own waitable.
C16_Witness ==
    /\ Len(accepted) = 2
    /\ accepted[1].op = "read" /\ accepted[2].op = "read"
    /\ accepted[1].c = accepted[2].c
    /\ Resolutions(accepted[1]) = {<<"read", 1>>}
    /\ Resolutions(accepted[2]) = {<<"read", 2>>}
    /\ resolved["read"][1].args.status = "success"
    /\ resolved["read"][2].args.status = "error"

\* ------------------------------------------------------------------------
\* The cached value
\* ------------------------------------------------------------------------
\* An accepted read() makes a read request for the value handle.
C17_ReadStep ==
    AcceptStep =>
        \A c \in Chars :
            read(c) =>
                RequestOf(NewAccepted) =
                    [id |-> nextId, kind |-> "read", handle |-> HandleValue(c),
                     data |-> <<>>, rsp |-> FALSE]

\* Every read at the transport is for the value handle of its characteristic.
C17_IssuedToValueHandle ==
    \A r \in transport :
        r.kind = "read" =>
            /\ r.id \in AcceptedIdSet
            /\ r.handle = HandleValue(AcceptedById(r.id).c)
            /\ r.handle \notin {HandleDecl(c) : c \in Chars} \cup {HandleCccd(c) : c \in Chars}

\* A successful completion with data D resolves the read with D and makes D
\* the characteristic's value.
C17_CompleteStep ==
    \A r \in transport, D \in ReadData :
        (r.kind = "read" /\ TransportComplete(r, "success", D)) =>
            LET e == resolved'["read"][Len(resolved'["read"])]
                c == AcceptedById(r.id).c
            IN  /\ Len(resolved'["read"]) = Len(resolved["read"]) + 1
                /\ e.sig = "on_read_complete"
                /\ e.c = c
                /\ e.args = [id |-> r.id, value |-> D, status |-> "success", reason |-> "SUCCESS"]
                /\ value'[c] = D
                /\ \A o \in Chars \ {c} : value'[o] = value[o]

\* C17: read() on a readable characteristic issues a transport read to the
\* value attribute's handle, not the declaration's or the CCCD's, and a
\* successful completion with data D resolves that read with D and sets the
\* characteristic's value to D.
C17_ReadUpdatesValue ==
    /\ [][C17_ReadStep]_vars
    /\ []C17_IssuedToValueHandle
    /\ [][C17_CompleteStep]_vars

\* A read of characteristic 1 on handle 11 succeeded with [85]: the read is
\* resolved with [85] and the value is [85].
C17_Witness ==
    /\ Len(accepted) = 1
    /\ accepted[1].op = "read"
    /\ accepted[1].handle = 11
    /\ Len(resolved["read"]) = 1
    /\ resolved["read"][1].args =
          [id |-> 1, value |-> <<85>>, status |-> "success", reason |-> "SUCCESS"]
    /\ value[1] = <<85>>

\* The three steps that may change the cached value of c.
ReadSuccessOf(c) ==
    \E r \in transport, D \in ReadData :
        /\ r.kind = "read" /\ r.handle = HandleValue(c)
        /\ TransportComplete(r, "success", D)
        /\ value'[c] = D
WriteSuccessOf(c) ==
    \E r \in transport :
        /\ r.kind = "write" /\ r.handle = HandleValue(c)
        /\ TransportComplete(r, "success", <<>>)
        /\ value'[c] = r.data
EventOn(c) ==
    \E event \in Events :
        /\ Matches(c, event)
        /\ HvxStep(event)
        /\ value'[c] = event.data

C18_OnlyThree ==
    \A c \in Chars :
        value'[c] # value[c] => (ReadSuccessOf(c) \/ WriteSuccessOf(c) \/ EventOn(c))

\* A call, a failed completion and the disconnect leave every value as it was.
C18_Frame ==
    /\ lastCall' # "none" => value' = value
    /\ (connected /\ ~connected') => value' = value
    /\ \A r \in transport : TransportComplete(r, "error", <<>>) => value' = value

\* C18: the cached value of a characteristic changes only in a successful read
\* completion, an event on its value handle and a successful write completion;
\* issuing a read or a write, a failed read or write completion and a
\* disconnect leave it unchanged.
C18_ValueFrame == [][C18_OnlyThree /\ C18_Frame]_vars

\* write([7]) was just called and is at the transport; the value still is the
\* [60] of an earlier notification.
C18_Witness ==
    /\ lastCall = "ok"
    /\ value[1] = <<60>>
    /\ \E r \in transport : r.kind = "write" /\ r.handle = HandleValue(1) /\ r.data = <<7>>
    /\ accepted[Len(accepted)].op = "write"

\* The handler invocations among the effects of a dispatch, in order.
Invocations(log) == SelectSeq(log, LAMBDA e : e.t = "handler")

C19_Step ==
    \A c \in Chars, event \in Events :
        (Matches(c, event) /\ HvxStep(event)) =>
            /\ value'[c] = event.data
            /\ Len(Invocations(hvxLog')) = Len(handlers[c])
            /\ \A i \in 1..Len(handlers[c]) :
                  /\ Invocations(hvxLog')[i].h = handlers[c][i]
                  /\ Invocations(hvxLog')[i].c = c
                  /\ Invocations(hvxLog')[i].value = event.data
                  /\ Invocations(hvxLog')[i].ind = event.ind
            /\ \A i, j \in 1..Len(handlers[c]) : handlers[c][i] = handlers[c][j] => i = j

\* C19: on a matching notification or indication the cached value is updated
\* to the event's data before any handler runs, and then every registered
\* handler is invoked exactly once, in registration order, each with the
\* updated value and the event's is-indication flag.
C19_DispatchInOrder == [][C19_Step]_vars

\* A notification carrying [60] was delivered to the two registered handlers,
\* in the order they were registered, each receiving [60], which is also the
\* cached value.
C19_Witness ==
    /\ handlers[1] = <<"h1", "h2">>
    /\ Len(hvxLog) = 2
    /\ hvxLog[1] = Invoke(1, "h1", <<60>>, FALSE, [conn |-> PeerConn, attr |-> HandleValue(1)])
    /\ hvxLog[2] = Invoke(1, "h2", <<60>>, FALSE, [conn |-> PeerConn, attr |-> HandleValue(1)])
    /\ value[1] = <<60>>

\* While the connection is up every event can be processed, whatever is in
\* flight or queued.
C20_AlwaysProcessable ==
    connected => \A event \in Events : ENABLED Hvx(event)

\* Processing an event leaves the manager and the subscription state alone.
C20_Step ==
    \A event \in Events :
        HvxStep(event) =>
            /\ UNCHANGED <<inflight, queue, transport, nextId, issued, accepted, resolved>>
            /\ cccd_state' = cccd_state
            /\ closed' = closed

\* C20: notification and indication events bypass the Read/Write Manager: an
\* event can be processed in any state, also while reads or writes are in
\* flight or queued and between a CCCD write's issue and its completion, and
\* processing it leaves the queues, the in-flight requests and
\* subscription_state unchanged.
C20_EventsBypassManager == []C20_AlwaysProcessable /\ [][C20_Step]_vars

\* An indication was processed while the subscribe's CCCD write was at the
\* transport and a value write waited in the queue behind it.
C20_Witness ==
    /\ \E r \in transport : r.handle = HandleCccd(1) /\ r.data = to_buffer(INDICATION)
    /\ Len(queue[DbManager]["write"]) = 1
    /\ queue[DbManager]["write"][1].handle = HandleValue(1)
    /\ cccd_state[1] = NOT_SUBSCRIBED
    /\ Len(hvxLog) = 2
    /\ hvxLog[1].t = "confirm"
    /\ hvxLog[2].t = "handler"

\* A read of the value attribute of c is at the transport.
ReadOutstanding(c) == \E r \in transport : r.kind = "read" /\ r.handle = HandleValue(c)

\* An event processed while a read is outstanding sets the value to its data
\* and leaves the read outstanding; the read's successful completion sets the
\* value to the data read, whatever an event made of it meanwhile.
C21_Step ==
    \A c \in Chars :
        /\ \A event \in Events :
              (ReadOutstanding(c) /\ Matches(c, event) /\ HvxStep(event)) =>
                  value'[c] = event.data /\ ReadOutstanding(c)'
        /\ \A r \in transport, D \in ReadData :
              (r.kind = "read" /\ r.handle = HandleValue(c)
                 /\ TransportComplete(r, "success", D)) =>
                  value'[c] = D

\* C21: when a read of a characteristic is outstanding and a notification for
\* the same value attribute arrives, the cached value after the successful
\* read completion and the notification is the data of whichever of the two
\* was processed second, in either order.
C21_LastProcessedWins == [][C21_Step]_vars

\* Two reads of characteristic 1 were made; the first returned [85], then an
\* indication carrying [60] was processed while the second was outstanding:
\* the value is [60].
C21_Witness ==
    /\ Len(resolved["read"]) = 1
    /\ resolved["read"][1].c = 1
    /\ resolved["read"][1].args.value = <<85>>
    /\ resolved["read"][1].args.status = "success"
    /\ ReadOutstanding(1)
    /\ hvxLog = <<Confirm(1, [conn |-> PeerConn, attr |-> HandleValue(1)])>>
    /\ value[1] = <<60>>

C22_Step ==
    \A c \in Chars, event \in Events :
        (~Matches(c, event) /\ HvxStep(event)) =>
            /\ value'[c] = value[c]
            /\ \A i \in 1..Len(hvxLog') : hvxLog'[i].c # c

\* C22: an event whose connection handle is not the peer's, or whose attribute
\* handle is not the characteristic's value handle (be it its own CCCD or
\* declaration handle), has no effect on the characteristic: its value is
\* unchanged, it sends no confirmation and none of its handlers is invoked.
C22_ForeignEventIgnored == [][C22_Step]_vars

\* An indication on the value handle of characteristic 1 was processed:
\* characteristic 2 kept the [85] it had read and did nothing.
C22_Witness ==
    /\ value[2] = <<85>>
    /\ value[1] = <<60>>
    /\ Len(hvxLog) >= 1
    /\ \A i \in 1..Len(hvxLog) : hvxLog[i].c = 1 /\ hvxLog[i].attr = HandleValue(1)

\* ------------------------------------------------------------------------
\* A characteristic without its CCCD
\* ------------------------------------------------------------------------
C23_Step ==
    \A c \in Chars, h \in Handlers, p \in BOOLEAN :
        (subscribable(c) /\ ~props[c].cccd /\ subscribe(c, h, p)) =>
            /\ lastCall' # "ok"
            /\ NoTransportIo
            /\ handlers' = handlers
            /\ cccd_state' = cccd_state

\* C23: subscribe() on a characteristic that can notify or indicate but has no
\* CCCD attribute does not succeed, issues no transport write and leaves the
\* characteristic as it was: no handler registered, subscription_state
\* unchanged.
C23_CccdRequired == [][C23_Step]_vars

\* ------------------------------------------------------------------------
\* Transport failures
\* ------------------------------------------------------------------------
HeldIds == {r.id : r \in Held}
\* How often request id was issued to the transport.
TimesIssued(id) ==
    Cardinality({<<k, i>> \in Kinds \X (1..MaxRequests) : i <= Len(issued[k]) /\ issued[k][i] = id})

\* A failed completion fires the call's event with the transport's status and
\* the reason that goes with it, and the request leaves the manager.
C24_Step ==
    \A r \in transport :
        TransportComplete(r, "error", <<>>) =>
            LET e == resolved'[r.kind][Len(resolved'[r.kind])]
            IN  /\ Len(resolved'[r.kind]) = Len(resolved[r.kind]) + 1
                /\ e.args.id = r.id
                /\ e.args.status = "error"
                /\ e.args.reason = "FAILED"
                /\ r.id \notin HeldIds'
                /\ \A k \in Kinds : \A i \in (Len(issued[k]) + 1)..Len(issued'[k]) :
                      issued'[k][i] # r.id

\* No request is issued twice, and a resolved request is not held any more.
C24_IssuedOnce ==
    /\ \A id \in AcceptedIdSet : TimesIssued(id) <= 1
    /\ \A id \in ResolvedAll : id \notin HeldIds
    /\ \A k \in Kinds : \A i \in 1..Len(resolved[k]) :
          resolved[k][i].args.status # "disconnected" => TimesIssued(resolved[k][i].args.id) = 1

\* C24: a read or write for which the transport reports a non-success status
\* is resolved with that status and reason and is issued to the transport
\* exactly once: a failed request is never issued again.
C24_NoRetry == [][C24_Step]_vars /\ []C24_IssuedOnce

\* A subscribe's CCCD write and a read both failed at the transport; each was
\* issued once, is resolved with status error and reason FAILED, and nothing
\* is left at the transport.
C24_Witness ==
    /\ Len(resolved["write"]) = 1 /\ Len(resolved["read"]) = 1
    /\ resolved["write"][1].sig = "on_cccd_write_complete"
    /\ resolved["write"][1].args.status = "error"
    /\ resolved["write"][1].args.reason = "FAILED"
    /\ resolved["read"][1].args.status = "error"
    /\ resolved["read"][1].args.reason = "FAILED"
    /\ TimesIssued(1) = 1 /\ TimesIssued(2) = 1
    /\ transport = {}

\* ------------------------------------------------------------------------
\* Lookups and discovery
\* ------------------------------------------------------------------------
\* The positions of the services whose UUID equals u, and the positions
\* <<s, c>> of the characteristics whose UUID equals u.
ServicesMatching(u) == {s \in 1..Len(services) : uuid_equals(services[s].uuid, u)}
CharacteristicsMatching(u) ==
    {p \in (1..Len(services)) \X (1..Len(iter_characteristics(services))) :
        /\ p[2] <= Len(services[p[1]].characteristics)
        /\ uuid_equals(services[p[1]].characteristics[p[2]].uuid, u)}
\* Database order: services in order, the characteristics of one in order.
Before(p, q) == p[1] < q[1] \/ (p[1] = q[1] /\ p[2] <= q[2])
Least(S) == CHOOSE i \in S : \A j \in S : i <= j
Earliest(P) == CHOOSE p \in P : \A q \in P : Before(p, q)
CharacteristicAt(p) == services[p[1]].characteristics[p[2]]

\* C25: find_service(uuid) returns the first service in database order whose
\* UUID equals uuid, and the database's find_characteristic(uuid) the first
\* matching characteristic when going through the services in order and the
\* characteristics of each in order; both return None when nothing matches,
\* and neither changes the database.
C25_Step ==
    \A u \in LookupUuids :
        /\ find_service(u) =>
              /\ services' = services
              /\ found'.result = IF ServicesMatching(u) = {} THEN None
                                 ELSE Some(services[Least(ServicesMatching(u))])
        /\ find_characteristic(u) =>
              /\ services' = services
              /\ found'.result = IF CharacteristicsMatching(u) = {} THEN None
                                 ELSE Some(CharacteristicAt(Earliest(CharacteristicsMatching(u))))
C25_FirstMatch == [][C25_Step]_vars
\* A characteristic was looked up by a UUID that two characteristics of
\* different services carry and got the one of the earlier service, in a
\* database holding two services with the battery service's UUID.
C25_Witness ==
    /\ found.op = "find_characteristic"
    /\ found.result # None
    /\ \E p \in CharacteristicsMatching(found.uuid[1]), q \in CharacteristicsMatching(found.uuid[1]) :
          p[1] < q[1] /\ found.result = Some(CharacteristicAt(p))
    /\ Cardinality(ServicesMatching(ServiceUuid_battery_service)) = 2

\* C26: add_discovered_services appends one service per discovered service,
\* in discovery order, after the services already present, which keep their
\* positions; services with a repeated UUID are all kept, and whatever is
\* added, find_service(uuid) keeps returning the earliest-added service with
\* that UUID.
C26_Step ==
    \A nrf_services \in Batches :
        add_discovered_services(nrf_services) =>
            /\ Len(services') = Len(services) + Len(nrf_services)
            /\ \A i \in 1..Len(services) : services'[i] = services[i]
            /\ \A i \in 1..Len(nrf_services) :
                  LET added == services'[Len(services) + i]
                  IN  /\ added.uuid = nrf_uuid_to_uuid(nrf_services[i].uuid)
                      /\ added.start_handle = nrf_services[i].start_handle
                      /\ added.end_handle = nrf_services[i].end_handle
                      /\ Len(added.characteristics) = Len(nrf_services[i].chars)
                      /\ \A c \in 1..Len(nrf_services[i].chars) :
                            added.characteristics[c].uuid
                                = nrf_uuid_to_uuid(nrf_services[i].chars[c].uuid)
            /\ \A u \in LookupUuids :
                  /\ ServicesMatching(u) # {} =>
                        FindService(services', u) = Some(services[Least(ServicesMatching(u))])
                  /\ ServicesMatching(u) = {} /\ FindService(services', u) # None =>
                        \E i \in 1..Len(nrf_services) :
                            /\ FindService(services', u) = Some(services'[Len(services) + i])
                            /\ \A j \in 1..(i - 1) :
                                  ~uuid_equals(nrf_uuid_to_uuid(nrf_services[j].uuid), u)
C26_AppendsInOrder == [][C26_Step]_vars
\* Discovery added the two instances of the vendor's service, the empty one
\* first, to a database that already held the battery service:
\* all three are kept, in the order they were added.
C26_Witness ==
    /\ found.op = "add_discovered_services"
    /\ Len(services) = 3
    /\ services[1].uuid = ServiceUuid_battery_service
    /\ services[2].start_handle = SvcVendorEmpty.start_handle
    /\ services[3].start_handle = SvcVendor.start_handle
    /\ uuid_equals(services[2].uuid, services[3].uuid)
    /\ FindService(services, services[3].uuid) = Some(services[2])

\* The attributes of the c-th characteristic of the s-th service and those
\* among them whose UUID equals u.
AttributesOf(s, c) ==
    {services[s].characteristics[c].attributes[i] :
        i \in 1..Len(services[s].characteristics[c].attributes)}
AttributesMatching(s, c, u) == {a \in AttributesOf(s, c) : uuid_equals(a.uuid, u)}

\* C27: find_descriptor(uuid) returns the attribute with the lowest handle
\* among the characteristic's attributes whose UUID equals uuid, and None
\* when no attribute matches.
C27_Step ==
    \A s \in 1..Len(services), u \in LookupUuids :
        \A c \in 1..Len(services[s].characteristics) :
            find_descriptor(s, c, u) =>
                IF AttributesMatching(s, c, u) = {}
                THEN found'.result = None
                ELSE \E a \in AttributesMatching(s, c, u) :
                        /\ found'.result = Some(a)
                        /\ \A b \in AttributesMatching(s, c, u) : a.handle <= b.handle
C27_LowestHandle == [][C27_Step]_vars
\* The user description was looked up on a characteristic that has two of
\* them, and the one with the lower handle was returned.
C27_Witness ==
    /\ found.op = "find_descriptor"
    /\ found.uuid = <<DescriptorUuid_user_description>>
    /\ found.result # None
    /\ \E b \in AttributesMatching(found.at[1], found.at[2], found.uuid[1]) :
          found.result[1].handle < b.handle

\* The positions <<s, c>> of the characteristics of the database.
Positions ==
    {p \in (1..Len(services)) \X (1..Len(iter_characteristics(services))) :
        p[2] <= Len(services[p[1]].characteristics)}
Members(attrs) == {attrs[i] : i \in 1..Len(attrs)}

\* C28: every characteristic built from a discovered characteristic has
\* exactly one declaration attribute and one value attribute, the value
\* attribute's UUID equals the characteristic's UUID, its attribute list is
\* ordered by ascending handle, and the declaration, value and (when present)
\* CCCD attributes are members of that list, whether or not the discovered
\* descriptors held a declaration or a value entry.
C28_WellFormed ==
    \A p \in Positions :
        LET ch == CharacteristicAt(p)
            attrs == ch.attributes
        IN  /\ Len(ch.decl_attr) = 1
            /\ Len(ch.value_attr) = 1
            /\ Len(ch.cccd_attr) <= 1
            /\ uuid_equals(ch.decl_attr[1].uuid, DeclarationUuid_characteristic)
            /\ uuid_equals(ch.value_attr[1].uuid, ch.uuid)
            /\ Cardinality({i \in 1..Len(attrs) :
                               uuid_equals(attrs[i].uuid, DeclarationUuid_characteristic)}) = 1
            /\ Cardinality({i \in 1..Len(attrs) : uuid_equals(attrs[i].uuid, ch.uuid)}) = 1
            /\ \A i \in 1..Len(attrs), j \in 1..Len(attrs) :
                  i < j => attrs[i].handle < attrs[j].handle
            /\ ch.decl_attr[1] \in Members(attrs)
            /\ ch.value_attr[1] \in Members(attrs)
            /\ ch.cccd_attr # None => ch.cccd_attr[1] \in Members(attrs)
\* The database holds a characteristic discovered without its declaration
\* but with a CCCD, one discovered without its value and one discovered with
\* no descriptors at all; the created attributes stand at their handles.
C28_Witness ==
    \E s \in 1..Len(services), t \in 1..Len(services) :
        /\ services[s].characteristics =
              <<GattcCharacteristic(CharacteristicUuid_battery_level, PNotifyOnly,
                    Some(GattcAttribute(DeclarationUuid_characteristic, 30)),
                    Some(GattcAttribute(CharacteristicUuid_battery_level, 31)),
                    Some(GattcAttribute(DescriptorUuid_cccd, 32)),
                    <<GattcAttribute(DeclarationUuid_characteristic, 30),
                      GattcAttribute(CharacteristicUuid_battery_level, 31),
                      GattcAttribute(DescriptorUuid_cccd, 32)>>)>>
        /\ Len(services[t].characteristics) = 2
        /\ services[t].characteristics[1].attributes[2]
              = GattcAttribute(Uuid128(<<2>> \o VendorTail), 41)
        /\ services[t].characteristics[1].cccd_attr = None
        /\ Len(services[t].characteristics[2].attributes) = 2

\* The 16-bit UUIDs callers look up, and the two forms of one.
SixteenBit == {u \in LookupUuids : u.size = 16}
Forms(x) == {x, Expanded(x)}
\* The positions of the services, characteristics and attributes that carry
\* the 16-bit UUID x in either form.
ServicesCarrying(x) == {s \in 1..Len(services) : services[s].uuid \in Forms(x)}
CharacteristicsCarrying(x) == {p \in Positions : CharacteristicAt(p).uuid \in Forms(x)}
AttributesCarrying(s, c, x) == {a \in AttributesOf(s, c) : a.uuid \in Forms(x)}

\* C29: UUID equality is semantic: every 16-bit UUID X equals the 128-bit
\* UUID obtained by expanding X with the Bluetooth base UUID, in both
\* argument orders, so find_service, find_characteristic and find_descriptor
\* find what carries X whichever form they are given.
C29_Step ==
    \A x \in SixteenBit :
        /\ uuid_equals(x, Expanded(x))
        /\ uuid_equals(Expanded(x), x)
        /\ \A u \in Forms(x) :
              /\ find_service(u) =>
                    found'.result = IF ServicesCarrying(x) = {} THEN None
                                    ELSE Some(services[Least(ServicesCarrying(x))])
              /\ find_characteristic(u) =>
                    found'.result = IF CharacteristicsCarrying(x) = {} THEN None
                                    ELSE Some(CharacteristicAt(Earliest(CharacteristicsCarrying(x))))
              /\ \A p \in Positions :
                    find_descriptor(p[1], p[2], u) =>
                        /\ AttributesCarrying(p[1], p[2], x) = {} => found'.result = None
                        /\ AttributesCarrying(p[1], p[2], x) # {} =>
                              /\ found'.result # None
                              /\ found'.result[1] \in AttributesCarrying(p[1], p[2], x)
C29_SemanticEquality == [][C29_Step]_vars
\* The battery service, discovered under its 16-bit UUID, was found by the
\* 128-bit form of that UUID.
C29_Witness ==
    /\ found.op = "find_service"
    /\ found.uuid = <<Expanded(ServiceUuid_battery_service)>>
    /\ found.result # None
    /\ found.result[1].uuid = ServiceUuid_battery_service

\* ------------------------------------------------------------------------
\* Immediate issue
\* ------------------------------------------------------------------------
\* C30: a request enqueued while no operation of its kind is in flight is
\* issued to the transport within the enqueue step, and a request enqueued
\* while one is in flight is appended to the queue and still returns its
\* request id at once; so in every reachable state a non-empty read (write)
\* queue implies that a read (write) is in flight.
C30_Step ==
    AcceptStep =>
        LET r == RequestOf(NewAccepted)
            k == r.kind
        IN  /\ r.id = nextId
            /\ nextId' = nextId + 1
            /\ inflight[DbManager][k] = NoReq =>
                  /\ inflight' = [inflight EXCEPT ![DbManager][k] = r]
                  /\ transport' = transport \cup {r}
                  /\ r \notin transport
                  /\ issued' = [issued EXCEPT ![k] = Append(@, r.id)]
                  /\ queue' = queue
            /\ inflight[DbManager][k] # NoReq =>
                  /\ queue' = [queue EXCEPT ![DbManager][k] = Append(@, r)]
                  /\ inflight' = inflight
                  /\ transport' = transport
                  /\ issued' = issued
C30_QueuedBehindInflight ==
    \A k \in Kinds :
        queue[DbManager][k] # <<>> =>
            /\ inflight[DbManager][k] # NoReq
            /\ inflight[DbManager][k] \in transport
C30_ImmediateIssue == [](C30_QueuedBehindInflight) /\ [][C30_Step]_vars
\* Two calls of one kind were accepted: the first was issued when it was
\* made and is still in flight, the second, just made, waits in the queue.
C30_Witness ==
    /\ lastCall = "ok"
    /\ Len(accepted) = 2
    /\ accepted[1].kind = accepted[2].kind
    /\ inflight[DbManager][accepted[1].kind] = RequestOf(accepted[1])
    /\ RequestOf(accepted[1]) \in transport
    /\ queue[DbManager][accepted[2].kind] = <<RequestOf(accepted[2])>>
    /\ issued[accepted[1].kind] = <<accepted[1].id>>

\* ------------------------------------------------------------------------
\* The handlers of the notification event
\* ------------------------------------------------------------------------
HandlerSet(hs) == {hs[i] : i \in 1..Len(hs)}

\* The handlers of a characteristic change only in a subscribe call on it,
\* which adds the handler given, and in an unsubscribe call on it, which
\* removes them all.
C31_OnlyCalls ==
    \A c \in Chars :
        handlers'[c] # handlers[c] =>
            \/ \E h \in Handlers, p \in BOOLEAN :
                  subscribe(c, h, p) /\ handlers'[c] = register(handlers[c], h)
            \/ unsubscribe(c) /\ handlers'[c] = <<>>
\* An accepted subscribe has registered its handler, an accepted unsubscribe
\* has removed all; completions and the disconnect leave the handlers alone,
\* and a failed CCCD write leaves the subscription state alone as well.
C31_Frame ==
    /\ \A c \in Chars, h \in Handlers, p \in BOOLEAN :
          (AcceptStep /\ subscribe(c, h, p)) => h \in HandlerSet(handlers'[c])
    /\ \A c \in Chars : (AcceptStep /\ unsubscribe(c)) => handlers'[c] = <<>>
    /\ \A r \in transport, status \in {"success", "error"}, d \in ReadData \cup {<<>>} :
          TransportComplete(r, status, d) =>
              /\ handlers' = handlers
              /\ status = "error" => cccd_state' = cccd_state
    /\ (connected /\ ~connected') => handlers' = handlers /\ cccd_state' = cccd_state
\* Every event on the value handle goes to all the handlers registered,
\* whatever the subscription state.
C31_Dispatch ==
    \A c \in Chars, event \in Events :
        (Matches(c, event) /\ HvxStep(event)) =>
            InvokedHandlers(hvxLog', c) = HandlerSet(handlers[c])

CccdCalls(c) == {i \in 1..Len(accepted) : accepted[i].handle = HandleCccd(c)}
CccdSucceeded(i) ==
    \E n \in 1..Len(resolved["write"]) :
        /\ resolved["write"][n].args.id = accepted[i].id
        /\ resolved["write"][n].args.status = "success"
Latest(S) == CHOOSE i \in S : \A j \in S : j <= i

\* C32: whatever sequence of subscribe and unsubscribe calls was made on a
\* characteristic, waiting for completions or not, once all of their CCCD
\* writes have completed successfully the subscription state is the value
\* written by the call made last; if that was a subscribe its handler is
\* registered.
C32_LastCallWins ==
    \A c \in Chars :
        (CccdCalls(c) # {} /\ \A i \in CccdCalls(c) : CccdSucceeded(i)) =>
            LET last == accepted[Latest(CccdCalls(c))]
            IN  /\ cccd_state[c] = from_buffer(last.data)
                /\ last.op = "unsubscribe" => cccd_state[c] = NOT_SUBSCRIBED
                /\ last.op = "subscribe" =>
                      /\ cccd_state[c] \in {NOTIFY, INDICATION}
                      /\ last.h \in HandlerSet(handlers[c])
\* unsubscribe and then subscribe(h1, prefer_indications) were called on
\* characteristic 1 and both CCCD writes succeeded: it is subscribed to
\* indications and h1 is registered.
C32_Witness ==
    /\ CccdCalls(1) = {1, 2}
    /\ accepted[1].op = "unsubscribe"
    /\ accepted[2].op = "subscribe"
    /\ CccdSucceeded(1)
    /\ CccdSucceeded(2)
    /\ cccd_state[1] = INDICATION
    /\ handlers[1] = <<"h1">>

\* ------------------------------------------------------------------------
\* Events and the cache
\* ------------------------------------------------------------------------
C33_Step ==
    \A c \in Chars, event \in Events :
        (Matches(c, event) /\ HvxStep(event)) =>
            /\ value'[c] = event.data
            /\ cccd_state' = cccd_state
            /\ handlers' = handlers

\* C33: a notification or indication on the value handle of a characteristic
\* sets its cached value to the event's data, whatever its subscription state
\* and whether or not a handler is registered, and changes neither.
C33_EventUpdatesValue == [][C33_Step]_vars
\* No call has been made: the characteristic is not subscribed and has no
\* handler, and its value is the [60] an event carried.
C33_Witness ==
    /\ accepted = <<>>
    /\ lastCall = "none"
    /\ cccd_state[1] = NOT_SUBSCRIBED
    /\ handlers[1] = <<>>
    /\ value[1] = <<60>>

\* ------------------------------------------------------------------------
\* unsubscribe without the capability
\* ------------------------------------------------------------------------
C34_Step ==
    \A c \in Chars :
        (~subscribable(c) /\ unsubscribe(c)) =>
            /\ lastCall' = "InvalidOperation"
            /\ NothingEnqueued
            /\ handlers' = handlers
            /\ cccd_state' = cccd_state
            /\ value' = value

\* C34: unsubscribe() on a characteristic that can neither notify nor
\* indicate fails at once with InvalidOperation and has no effect: no CCCD
\* write is enqueued and the handlers registered directly on the notification
\* event are not cleared.
C34_UnsubscribeRefused == [][C34_Step]_vars
\* Two handlers were registered on the notification event of characteristic
\* 2, which can neither notify nor indicate; a call was just refused with
\* InvalidOperation, nothing was ever enqueued and both are still registered.
C34_Witness ==
    /\ ~subscribable(2)
    /\ handlers[2] = <<"h1", "h2">>
    /\ lastCall = "InvalidOperation"
    /\ accepted = <<>>
    /\ transport = {}

\* ------------------------------------------------------------------------
\* The completion of a subscribe or unsubscribe
\* ------------------------------------------------------------------------
CccdRequests(c) == {r \in Held : r.handle = HandleCccd(c)}
\* The events fired in this step.
NewlyFired == SubSeq(resolved'["write"], Len(resolved["write"]) + 1, Len(resolved'["write"]))

C35_Step ==
    \A c \in Chars :
        /\ \A r \in CccdRequests(c), status \in {"success", "error"} :
              TransportComplete(r, status, <<>>) =>
                  /\ cccd_state'[c] = IF status = "success" THEN from_buffer(r.data)
                                                            ELSE cccd_state[c]
                  /\ NewlyFired =
                        <<Fired("on_cccd_write_complete", c,
                                [id |-> r.id, value |-> cccd_state'[c], status |-> status,
                                 reason |-> IF status = "success" THEN "SUCCESS"
                                                                  ELSE "FAILED"])>>
        /\ (connected /\ ~connected') =>
              \A r \in CccdRequests(c) :
                  \E n \in 1..Len(NewlyFired) :
                      NewlyFired[n] =
                          Fired("on_cccd_write_complete", c,
                                [id |-> r.id, value |-> cccd_state[c],
                                 status |-> "disconnected",
                                 reason |-> "SERVER_DISCONNECTED"])

\* C35: the completion delivered for a subscribe or unsubscribe carries the
\* request's id, the transport's status and reason, and the subscription
\* state as it is after the completion was applied: the state just written
\* on success, the state confirmed before on failure.
C35_CompletionArgs == [][C35_Step]_vars
\* subscribe succeeded and its completion carried NOTIFY; the unsubscribe
\* that followed failed and its completion carried NOTIFY as well, the state
\* the characteristic is still in.
C35_Witness ==
    /\ Len(resolved["write"]) = 2
    /\ accepted[1].op = "subscribe"
    /\ accepted[2].op = "unsubscribe"
    /\ resolved["write"][1].args = [id |-> 1, value |-> NOTIFY, status |-> "success",
                                    reason |-> "SUCCESS"]
    /\ resolved["write"][2].args = [id |-> 2, value |-> NOTIFY, status |-> "error",
                                    reason |-> "FAILED"]
    /\ cccd_state[1] = NOTIFY

\* ------------------------------------------------------------------------
\* Routing of completions by attribute
\* ------------------------------------------------------------------------
\* The events fired in this step on the read side.
NewlyFiredReads == SubSeq(resolved'["read"], Len(resolved["read"]) + 1, Len(resolved'["read"]))
FiredBy(fired) == {[sig |-> fired[n].sig, c |-> fired[n].c, id |-> fired[n].args.id] :
                      n \in 1..Len(fired)}
\* The completion of request r leaves every characteristic but c as it was.
OthersUntouched(c) ==
    \A o \in Chars \ {c} :
        /\ cccd_state'[o] = cccd_state[o]
        /\ value'[o] = value[o]
        /\ handlers'[o] = handlers[o]

C36_Step ==
    \A c \in Chars, r \in transport, status \in {"success", "error"}, d \in ReadData \cup {<<>>} :
        (r.handle \in {HandleValue(c), HandleCccd(c)} /\ TransportComplete(r, status, d)) =>
            /\ OthersUntouched(c)
            /\ (r.handle = HandleValue(c) /\ r.kind = "write") =>
                  /\ cccd_state' = cccd_state
                  /\ FiredBy(NewlyFired) = {[sig |-> "on_write_complete", c |-> c, id |-> r.id]}
                  /\ NewlyFiredReads = <<>>
            /\ (r.handle = HandleValue(c) /\ r.kind = "read") =>
                  /\ cccd_state' = cccd_state
                  /\ FiredBy(NewlyFiredReads) = {[sig |-> "on_read_complete", c |-> c, id |-> r.id]}
                  /\ NewlyFired = <<>>
            /\ r.handle = HandleCccd(c) =>
                  /\ value' = value
                  /\ FiredBy(NewlyFired) = {[sig |-> "on_cccd_write_complete", c |-> c, id |-> r.id]}
                  /\ NewlyFiredReads = <<>>
\* When the disconnect fails the requests out, each event is one of the
\* request's own characteristic and attribute.
C36_Drain ==
    (connected /\ ~connected') =>
        /\ cccd_state' = cccd_state
        /\ value' = value
        /\ FiredBy(NewlyFired) \cup FiredBy(NewlyFiredReads) =
              {[sig |-> (IF r.kind = "read" THEN "on_read_complete"
                         ELSE IF r.handle = HandleCccd(OwnerOf(r.handle))
                         THEN "on_cccd_write_complete" ELSE "on_write_complete"),
                c |-> OwnerOf(r.handle), id |-> r.id] : r \in Held}

\* C36: completions are routed by attribute: the completion of a write to the
\* value attribute never changes the subscription state and fires no
\* subscribe/unsubscribe completion, the completion of a CCCD write never
\* fires the write-complete event and never changes the cached value, and
\* the completions of one characteristic's attributes leave every other
\* characteristic alone.
C36_RoutedByAttribute == [][C36_Step /\ C36_Drain]_vars
\* Characteristic 1 is subscribed by a completed CCCD write and has no value
\* yet; a write to the value of characteristic 2 has completed since, fired
\* on_write_complete of characteristic 2 and changed only its value.
C36_Witness ==
    /\ Len(resolved["write"]) = 2
    /\ resolved["write"][1].sig = "on_cccd_write_complete"
    /\ resolved["write"][1].c = 1
    /\ resolved["write"][2].sig = "on_write_complete"
    /\ resolved["write"][2].c = 2
    /\ resolved["write"][2].args.status = "success"
    /\ cccd_state = <<NOTIFY, NOT_SUBSCRIBED>>
    /\ value = <<<<>>, <<7>>>>

====
